---- MODULE Spec2Model ----
(***************************************************************************)
(* Model of the monthly billing chart page (the Home component and the     *)
(* helpers in front of it): CSV file -> MonthlyReport, the report store    *)
(* reportsByMonth, the three selections and the views derived from them.   *)
(*                                                                         *)
(* Representation.                                                         *)
(*  - A JavaScript string is a sequence of tokens (a token is a character  *)
(*    or an indivisible run of characters, written as a TLA+ string).      *)
(*    undefined/null and the empty string are both the empty sequence:     *)
(*    every test the code makes on them (!value, ?.trim(), !month) cannot  *)
(*    tell them apart, and an accountId matched by \d+ is never empty.     *)
(*  - A JavaScript number is an integer number of cost units rounded to    *)
(*    MantissaBits significant bits, ties to even, as IEEE-754 rounds to   *)
(*    53 bits. NaN and the infinities exist only as results of parseFloat. *)
(*  - A Record<string, number> is a sequence of [name, cost] entries in    *)
(*    insertion order, names unique.                                       *)
(***************************************************************************)
EXTENDS Integers, Sequences, FiniteSets, TLC

(***************************************************************************)
(* Bounds                                                                  *)
(***************************************************************************)
\* significant bits of a number (53 in the program)
MantissaBits == 3
\* data rows of a file drawn in SpecParse
MaxRows == 3
\* files in one upload batch
MaxFiles == 2
\* upload batches in flight at the same time
MaxInFlight == 2
\* files handed to processFiles in one behaviour
MaxUploaded == 3

(***************************************************************************)
(* Strings                                                                 *)
(***************************************************************************)
undefined == <<>>

\* the tokens of the model in UTF-16 code unit order
TokenOrder ==
  <<" ", " (1)", "$", ",", "-", ".csv", "0", "1", "111", "2", "2024-05",
    "2024-06", "222", "333", "8", "AWS Config", "Amazon S3", "Infinity",
    "monthly-report-", "report-", "x">>

TokenRank(t) == CHOOSE i \in 1..Len(TokenOrder) : TokenOrder[i] = t

\* a < b for strings, as Array.prototype.sort() without comparator and
\* localeCompare order the strings of the model
RECURSIVE StrLess(_, _)
StrLess(a, b) ==
  IF b = <<>> THEN FALSE
  ELSE IF a = <<>> THEN TRUE
  ELSE IF Head(a) = Head(b) THEN StrLess(Tail(a), Tail(b))
  ELSE TokenRank(Head(a)) < TokenRank(Head(b))

\* String.prototype.trim
RECURSIVE TrimStart(_)
TrimStart(s) ==
  IF s # <<>> /\ Head(s) = " " THEN TrimStart(Tail(s)) ELSE s

RECURSIVE TrimEnd(_)
TrimEnd(s) ==
  IF s # <<>> /\ s[Len(s)] = " " THEN TrimEnd(SubSeq(s, 1, Len(s) - 1)) ELSE s

trim(s) == TrimEnd(TrimStart(s))

\* the characters of a token
Spell(t) ==
  CASE t = " (1)" ->
         <<" ", "(", "1", ")">>
    [] t = ".csv" ->
         <<".", "c", "s", "v">>
    [] t = "111" ->
         <<"1", "1", "1">>
    [] t = "2024-05" ->
         <<"2", "0", "2", "4", "-", "0", "5">>
    [] t = "2024-06" ->
         <<"2", "0", "2", "4", "-", "0", "6">>
    [] t = "222" ->
         <<"2", "2", "2">>
    [] t = "333" ->
         <<"3", "3", "3">>
    [] t = "AWS Config" ->
         <<"A", "W", "S", " ", "C", "o", "n", "f", "i", "g">>
    [] t = "AWS KMS" ->
         <<"A", "W", "S", " ", "K", "M", "S">>
    [] t = "AWS Lambda" ->
         <<"A", "W", "S", " ", "L", "a", "m", "b", "d", "a">>
    [] t = "Amazon EC2" ->
         <<"A", "m", "a", "z", "o", "n", " ", "E", "C", "2">>
    [] t = "Amazon ECS" ->
         <<"A", "m", "a", "z", "o", "n", " ", "E", "C", "S">>
    [] t = "Amazon EKS" ->
         <<"A", "m", "a", "z", "o", "n", " ", "E", "K", "S">>
    [] t = "Amazon RDS" ->
         <<"A", "m", "a", "z", "o", "n", " ", "R", "D", "S">>
    [] t = "Amazon Route 53" ->
         <<"A", "m", "a", "z", "o", "n", " ", "R", "o", "u", "t", "e", " ", "5", "3">>
    [] t = "Amazon S3" ->
         <<"A", "m", "a", "z", "o", "n", " ", "S", "3">>
    [] t = "Amazon SNS" ->
         <<"A", "m", "a", "z", "o", "n", " ", "S", "N", "S">>
    [] t = "Amazon SQS" ->
         <<"A", "m", "a", "z", "o", "n", " ", "S", "Q", "S">>
    [] t = "Amazon VPC" ->
         <<"A", "m", "a", "z", "o", "n", " ", "V", "P", "C">>
    [] t = "Infinity" ->
         <<"I", "n", "f", "i", "n", "i", "t", "y">>
    [] t = "monthly-report-" ->
         <<"m", "o", "n", "t", "h", "l", "y", "-", "r", "e", "p", "o", "r", "t", "-">>
    [] t = "report-" ->
         <<"r", "e", "p", "o", "r", "t", "-">>
    [] OTHER -> <<t>>

\* the characters of a string
RECURSIVE Characters(_)
Characters(s) ==
  IF s = <<>> THEN <<>> ELSE Spell(Head(s)) \o Characters(Tail(s))

\* the upper-case letters that occur in the model and their lower case
LowerCase(c) ==
  CASE c = "A" -> "a"
    [] c = "C" -> "c"
    [] c = "D" -> "d"
    [] c = "E" -> "e"
    [] c = "I" -> "i"
    [] c = "K" -> "k"
    [] c = "L" -> "l"
    [] c = "M" -> "m"
    [] c = "N" -> "n"
    [] c = "P" -> "p"
    [] c = "Q" -> "q"
    [] c = "R" -> "r"
    [] c = "S" -> "s"
    [] c = "V" -> "v"
    [] c = "W" -> "w"
    [] c = "O" -> "o"
    [] c = "N" -> "n"
    [] OTHER -> c

\* String.prototype.toLowerCase on a sequence of characters
toLowerCase(chars) == [i \in 1..Len(chars) |-> LowerCase(chars[i])]

\* String.prototype.includes on sequences of characters
StringIncludes(chars, term) ==
  \E i \in 0..(Len(chars) - Len(term)) :
    SubSeq(chars, i + 1, i + Len(term)) = term

(***************************************************************************)
(* Numbers                                                                 *)
(***************************************************************************)
Abs(x) == IF x < 0 THEN 0 - x ELSE x

RECURSIVE Pow2(_)
Pow2(n) == IF n = 0 THEN 1 ELSE 2 * Pow2(n - 1)

\* the spacing of representable numbers around magnitude a
RECURSIVE Ulp(_)
Ulp(a) == IF a < Pow2(MantissaBits) THEN 1 ELSE 2 * Ulp(a \div 2)

\* the multiple of u nearest to a >= 0, of two equally near the even one
RoundTo(a, u) ==
  IF 2 * (a % u) > u \/ (2 * (a % u) = u /\ (a \div u) % 2 = 1)
  THEN (a \div u + 1) * u
  ELSE (a \div u) * u

\* round to nearest representable number, ties to even
Round(x) ==
  IF x < 0 THEN 0 - RoundTo(0 - x, Ulp(0 - x)) ELSE RoundTo(x, Ulp(x))

\* a + b on numbers
NumAdd(a, b) == Round(a + b)

Digit == {"0", "1", "2", "8"}

DigitValue(d) ==
  CASE d = "0" -> 0 [] d = "1" -> 1 [] d = "2" -> 2 [] d = "8" -> 8

\* the longest prefix of decimal digits
RECURSIVE DigitPrefix(_)
DigitPrefix(s) ==
  IF s # <<>> /\ Head(s) \in Digit
  THEN <<Head(s)>> \o DigitPrefix(Tail(s))
  ELSE <<>>

RECURSIVE Decimal(_)
Decimal(ds) ==
  IF ds = <<>> THEN 0
  ELSE 10 * Decimal(SubSeq(ds, 1, Len(ds) - 1)) + DigitValue(ds[Len(ds)])

\* Number.parseFloat on a string without '.', 'e' or '+': leading white
\* space is skipped, then an optional sign, then Infinity or the longest run
\* of digits; anything after it is ignored. finite is FALSE for NaN and for
\* the infinities.
parseFloat(s) ==
  LET t == TrimStart(s)
      neg == t # <<>> /\ Head(t) = "-"
      body == IF neg THEN Tail(t) ELSE t
      ds == DigitPrefix(body)
  IN  IF body # <<>> /\ Head(body) = "Infinity"
        THEN [finite |-> FALSE, v |-> 0]
      ELSE IF ds = <<>>
        THEN [finite |-> FALSE, v |-> 0]
      ELSE [finite |-> TRUE,
            v |-> Round(IF neg THEN 0 - Decimal(ds) ELSE Decimal(ds))]

\* a normalizeCost that does not remove '$' and ','
normalizeCostKeepSymbols(value) ==
  IF value = undefined THEN 0
  ELSE LET number == parseFloat(value)
       IN  IF number.finite THEN number.v ELSE 0

normalizeCost(value) ==
  IF value = undefined THEN 0
  ELSE LET normalized == SelectSeq(value, LAMBDA c : c \notin {"$", ","})
           parsed == parseFloat(normalized)
       IN  IF parsed.finite THEN parsed.v ELSE 0

(***************************************************************************)
(* Records (Record<string, number>)                                        *)
(***************************************************************************)
Range(seq) == {seq[i] : i \in 1..Len(seq)}

Keys(rec) == {rec[i].name : i \in 1..Len(rec)}

IndexOfKey(rec, k) == CHOOSE i \in 1..Len(rec) : rec[i].name = k

\* rec[k] ?? 0
GetOrZero(rec, k) ==
  IF k \in Keys(rec) THEN rec[IndexOfKey(rec, k)].cost ELSE 0

\* rec[k] = v: an existing key keeps its place, a new key goes last
Put(rec, k, v) ==
  IF k \in Keys(rec)
  THEN [rec EXCEPT ![IndexOfKey(rec, k)] = [name |-> k, cost |-> v]]
  ELSE Append(rec, [name |-> k, cost |-> v])

(***************************************************************************)
(* File name patterns                                                      *)
(***************************************************************************)
\* tokens matched by \d{4}-\d{2}
MonthToken == {"2024-05", "2024-06"}

\* tokens matched by \d+
DigitsToken == {"0", "1", "2", "8", "111", "222", "333"}

TokenAt(s, i) == IF i \in 1..Len(s) THEN s[i] ELSE ""

\* the positions where /monthly-report-(\d{4}-\d{2})-/ matches
MonthMatches(fileName) ==
  {i \in 1..Len(fileName) :
     /\ TokenAt(fileName, i) = "monthly-report-"
     /\ TokenAt(fileName, i + 1) \in MonthToken
     /\ TokenAt(fileName, i + 2) = "-"}

Min(S) == CHOOSE x \in S : \A y \in S : x <= y

\* a month pattern without the '-' behind the month
extractMonthWithoutHyphen(fileName) ==
  LET at == {i \in 1..Len(fileName) :
               /\ TokenAt(fileName, i) = "monthly-report-"
               /\ TokenAt(fileName, i + 1) \in MonthToken}
  IN  IF at = {} THEN "" ELSE fileName[Min(at) + 1]

\* null is the empty string
extractMonthFromFileName(fileName) ==
  IF MonthMatches(fileName) = {} THEN ""
  ELSE fileName[Min(MonthMatches(fileName)) + 1]

\* the positions where /monthly-report-\d{4}-\d{2}-(\d+)\.csv$/ matches
AccountMatches(fileName) ==
  {i \in 1..Len(fileName) :
     /\ TokenAt(fileName, i) = "monthly-report-"
     /\ TokenAt(fileName, i + 1) \in MonthToken
     /\ TokenAt(fileName, i + 2) = "-"
     /\ TokenAt(fileName, i + 3) \in DigitsToken
     /\ TokenAt(fileName, i + 4) = ".csv"
     /\ i + 4 = Len(fileName)}

\* null is undefined
extractAccountFromFileName(fileName) ==
  IF AccountMatches(fileName) = {} THEN undefined
  ELSE <<fileName[Min(AccountMatches(fileName)) + 3]>>

(***************************************************************************)
(* parseMonthlyReport                                                      *)
(***************************************************************************)
\* results.errors.slice(0, 5)
WarningLimit == 5

\* a slice without its end
TakeAll(seq, n) == seq

Take(seq, n) == SubSeq(seq, 1, IF Len(seq) < n THEN Len(seq) ELSE n)

\* a row loop without the test cost === 0
RECURSIVE RowLoopKeepZero(_, _)
RowLoopKeepZero(data, acc) ==
  IF data = <<>> THEN acc
  ELSE LET row == Head(data)
           service == trim(row.product_name)
           cost == normalizeCost(row.cost)
       IN  IF service = <<>> THEN RowLoopKeepZero(Tail(data), acc)
           ELSE RowLoopKeepZero(Tail(data),
                  [services |->
                     Put(acc.services, service,
                         NumAdd(GetOrZero(acc.services, service), cost)),
                   total |-> NumAdd(acc.total, cost)])

\* the loop over results.data; acc is [services, total]
RECURSIVE RowLoop(_, _)
RowLoop(data, acc) ==
  IF data = <<>> THEN acc
  ELSE LET row == Head(data)
           service == trim(row.product_name)
           cost == normalizeCost(row.cost)
       IN  IF service = <<>> THEN RowLoop(Tail(data), acc)
           ELSE IF cost = 0 THEN RowLoop(Tail(data), acc)
           ELSE RowLoop(Tail(data),
                  [services |->
                     Put(acc.services, service,
                         NumAdd(GetOrZero(acc.services, service), cost)),
                   total |-> NumAdd(acc.total, cost)])

\* one warning text: file name, row label, message
Warning(fileName, error) ==
  [fileName |-> fileName,
   rowLabel |-> IF error.row >= 0 THEN <<"row", error.row>>
                ELSE <<"unknown row", 0>>,
   message |-> error.message]

\* The promise of parseMonthlyReport once settled. readFails is the parsing
\* layer's choice between its complete and its error callback.
parseMonthlyReport(file, readFails) ==
  LET month == extractMonthFromFileName(file.name)
      accountId == extractAccountFromFileName(file.name)
      acc == RowLoop(file.data, [services |-> <<>>, total |-> 0])
  IN  IF month = ""
        THEN [status |-> "rejected",
              reason |-> [kind |-> "no month", fileName |-> file.name]]
      ELSE IF readFails
        THEN [status |-> "rejected",
              reason |-> [kind |-> "read failed", fileName |-> file.name]]
      ELSE [status |-> "fulfilled",
            value |->
              [report |-> [month |-> month,
                           services |-> acc.services,
                           total |-> acc.total,
                           fileName |-> file.name,
                           accountId |-> accountId],
               warnings |->
                 [i \in 1..Len(Take(file.errors, WarningLimit)) |->
                    Warning(file.name, file.errors[i])]]]

(***************************************************************************)
(* Generic helpers over arrays                                             *)
(***************************************************************************)
\* Array.prototype.forEach / reduce with an accumulator
RECURSIVE FoldLeft(_, _, _)
FoldLeft(Op(_, _), acc, seq) ==
  IF seq = <<>> THEN acc ELSE FoldLeft(Op, Op(acc, Head(seq)), Tail(seq))

\* Array.prototype.includes
Includes(seq, x) == x \in Range(seq)

\* Array.prototype.filter((y) => y !== x)
Without(seq, x) == SelectSeq(seq, LAMBDA y : y # x)

\* insert x before the first element it must precede; with Before(x, y) a
\* strict order this is one step of a stable insertion sort
RECURSIVE InsertSorted(_, _, _)
InsertSorted(Before(_, _), seq, x) ==
  IF seq = <<>> THEN <<x>>
  ELSE IF Before(x, Head(seq)) THEN <<x>> \o seq
  ELSE <<Head(seq)>> \o InsertSorted(Before, Tail(seq), x)

\* Array.prototype.sort: a stable sort
SortBy(Before(_, _), seq) ==
  FoldLeft(LAMBDA sorted, x : InsertSorted(Before, sorted, x), <<>>, seq)

(***************************************************************************)
(* The files the user can upload                                           *)
(***************************************************************************)
Row(name, cost) == [product_name |-> name, cost |-> cost]

ParseError(row, message) == [row |-> row, message |-> message]

S3 == <<"Amazon S3">>
Config == <<"AWS Config">>

\* account 111, May
File111May ==
  [name |-> <<"monthly-report-", "2024-05", "-", "111", ".csv">>,
   data |-> <<Row(S3, <<"$", "1">>), Row(Config, <<"2">>)>>,
   errors |-> <<>>]

\* account 222, May
File222May ==
  [name |-> <<"monthly-report-", "2024-05", "-", "222", ".csv">>,
   data |-> <<Row(<<" ">> \o S3, <<"2">>), Row(Config, <<"0">>)>>,
   errors |-> <<>>]

\* account 111, May, a later export under the same name: a credit, no S3 row,
\* and six rows the parsing layer complains about, one of them without a row
\* number (row -1)
File111MayRevised ==
  [name |-> <<"monthly-report-", "2024-05", "-", "111", ".csv">>,
   data |-> <<Row(Config, <<"-", "1">>)>>,
   errors |-> <<ParseError(2, "TooFewFields"), ParseError(3, "TooFewFields"),
                ParseError(0 - 1, "UndetectableDelimiter"),
                ParseError(5, "TooManyFields"), ParseError(6, "TooFewFields"),
                ParseError(7, "TooFewFields")>>]

\* account 222, June: nothing billed, the only row costs 0
File222JuneUnbilled ==
  [name |-> <<"monthly-report-", "2024-06", "-", "222", ".csv">>,
   data |-> <<Row(Config, <<"0">>)>>,
   errors |-> <<>>]

\* June, a browser-renamed download: no account id can be read from the name
FileJuneCopy ==
  [name |-> <<"monthly-report-", "2024-06", "-", "111", " (1)", ".csv">>,
   data |-> <<Row(S3, <<"8">>), Row(Config, <<"1">>), Row(Config, <<"1">>)>>,
   errors |-> <<ParseError(4, "TooManyFields")>>]

\* no monthly-report- prefix
FileNoPrefix ==
  [name |-> <<"report-", "2024-05", ".csv">>,
   data |-> <<Row(S3, <<"1">>)>>,
   errors |-> <<>>]

\* account 333, May: twelve services, several of them with the same cost
File333MayWide ==
  [name |-> <<"monthly-report-", "2024-05", "-", "333", ".csv">>,
   data |-> <<Row(S3, <<"2">>), Row(Config, <<"2">>),
              Row(<<"Amazon EC2">>, <<"8">>), Row(<<"Amazon RDS">>, <<"1">>),
              Row(<<"AWS Lambda">>, <<"1">>), Row(<<"Amazon VPC">>, <<"2">>),
              Row(<<"Amazon SNS">>, <<"1">>), Row(<<"Amazon SQS">>, <<"2">>),
              Row(<<"AWS KMS">>, <<"1">>), Row(<<"Amazon ECS">>, <<"8">>),
              Row(<<"Amazon EKS">>, <<"1">>), Row(<<"Amazon Route 53">>, <<"1">>)>>,
   errors |-> <<>>]

Files ==
  {File111May, File222May, File111MayRevised, FileJuneCopy, File222JuneUnbilled,
   FileNoPrefix}

\* the batches a file dialog or a drop can hand to processFiles
RECURSIVE SeqsUpTo(_, _)
SeqsUpTo(S, n) ==
  IF n = 0 THEN {<<>>}
  ELSE LET shorter == SeqsUpTo(S, n - 1)
       IN  shorter \cup {Append(q, x) : q \in shorter, x \in S}

Batches == SeqsUpTo(Files, MaxFiles) \ {<<>>}

(***************************************************************************)
(* State                                                                   *)
(***************************************************************************)
VARIABLES
  reportsByMonth,          \* Record<string, MonthlyReport[]>: [month, reports]
                           \* entries in key insertion order
  errorMessage,            \* the failure lines; null is <<>>
  warnings,
  isParsing,
  selectedAccounts,
  selectedMonths,
  selectedServices,
  hasInitializedAccounts,
  hasInitializedMonths,
  hasInitializedServices,
  aggregationMode,
  inFlight,                \* the processFiles calls awaiting Promise.allSettled
  uploaded,                \* files handed to processFiles so far
  accountFilter,           \* the text of the three filter inputs, a sequence
  monthFilter,             \* of characters
  serviceFilter,
  file,                    \* SpecParse: the file handed to parseMonthlyReport
  parsed                   \* SpecParse: what its promise settled to

appVars ==
  <<reportsByMonth, errorMessage, warnings, isParsing, selectedAccounts,
    selectedMonths, selectedServices, hasInitializedAccounts,
    hasInitializedMonths, hasInitializedServices, aggregationMode, inFlight,
    uploaded, accountFilter, monthFilter, serviceFilter>>

filterTexts == <<accountFilter, monthFilter, serviceFilter>>

parseVars == <<file, parsed>>

vars == <<appVars, parseVars>>

(***************************************************************************)
(* The report store                                                        *)
(***************************************************************************)
\* r.accountId ?? r.fileName
IdentityKey(r) == IF r.accountId # undefined THEN r.accountId ELSE r.fileName

\* Object.keys(store)
MonthKeys(store) == [i \in 1..Len(store) |-> store[i].month]

\* store[month] ?? []
ReportsOf(store, month) ==
  IF month \in Range(MonthKeys(store))
  THEN store[CHOOSE i \in 1..Len(store) : store[i].month = month].reports
  ELSE <<>>

\* store[month] = arr
SetMonth(store, month, arr) ==
  IF month \in Range(MonthKeys(store))
  THEN [i \in 1..Len(store) |->
          IF store[i].month = month
          THEN [month |-> month, reports |-> arr] ELSE store[i]]
  ELSE Append(store, [month |-> month, reports |-> arr])

\* arr.findIndex((r) => (r.accountId ?? r.fileName) === key); 0 for -1
FindIndex(arr, key) ==
  IF \E i \in 1..Len(arr) : IdentityKey(arr[i]) = key
  THEN Min({i \in 1..Len(arr) : IdentityKey(arr[i]) = key})
  ELSE 0

\* an upsert that never looks for the key: the report always goes last
UpsertAlwaysAppend(updated, report) ==
  SetMonth(updated, report.month,
           Append(ReportsOf(updated, report.month), report))

\* an upsert that takes the entry with the key out and puts the report last
UpsertMoveToEnd(updated, report) ==
  LET arr == ReportsOf(updated, report.month)
      key == IdentityKey(report)
  IN  SetMonth(updated, report.month,
               Append(SelectSeq(arr, LAMBDA r : IdentityKey(r) # key), report))

\* the body of nextReports.forEach in the setReportsByMonth updater
Upsert(updated, report) ==
  LET arr == ReportsOf(updated, report.month)
      key == IdentityKey(report)
      existingIndex == FindIndex(arr, key)
  IN  SetMonth(updated, report.month,
               IF existingIndex >= 1
               THEN [arr EXCEPT ![existingIndex] = report]
               ELSE Append(arr, report))

\* the setReportsByMonth updater
UpsertAll(prev, nextReports) == FoldLeft(Upsert, prev, nextReports)

(***************************************************************************)
(* Derived views (the useMemo values), as functions of the state they      *)
(* depend on                                                               *)
(***************************************************************************)
\* Object.values(store).forEach((arr) => arr.forEach(...)): the reports in
\* the order they are visited
AllReports(store) ==
  FoldLeft(LAMBDA acc, entry : acc \o entry.reports, <<>>, store)

SortedMonthsOf(store) ==
  SortBy(LAMBDA a, b : TokenRank(a) < TokenRank(b), MonthKeys(store))

AccountsOf(store) ==
  LET set == FoldLeft(LAMBDA acc, r :
                        IF Includes(acc, IdentityKey(r)) THEN acc
                        ELSE Append(acc, IdentityKey(r)),
                      <<>>, AllReports(store))
  IN  SortBy(StrLess, set)

\* the account filter of chartData and services: a report is left out only
\* when some account is selected and its key is not
AccountAllowed(r, selAccounts) ==
  ~(Len(selAccounts) > 0 /\ ~Includes(selAccounts, IdentityKey(r)))

\* an accumulation that assigns instead of adding
AddServicesOverwrite(into, r) ==
  FoldLeft(LAMBDA acc, e : Put(acc, e.name, e.cost), into, r.services)

\* Object.entries(r.services).forEach(([svc, cost]) => into[svc] += cost)
AddServices(into, r) ==
  FoldLeft(LAMBDA acc, e : Put(acc, e.name, NumAdd(GetOrZero(acc, e.name), e.cost)),
           into, r.services)

ChartDataOf(store, selAccounts) ==
  LET months == SortedMonthsOf(store)
  IN  [i \in 1..Len(months) |->
         [month |-> months[i],
          services |->
            FoldLeft(LAMBDA acc, r :
                       IF AccountAllowed(r, selAccounts)
                       THEN AddServices(acc, r) ELSE acc,
                     <<>>, ReportsOf(store, months[i]))]]

\* .map(([service]) => service)
Names(entries) == [i \in 1..Len(entries) |-> entries[i].name]

\* the totals per service over the reports the account filter lets through
ServiceTotalsOf(store, selAccounts) ==
  FoldLeft(LAMBDA acc, r :
             IF AccountAllowed(r, selAccounts) THEN AddServices(acc, r) ELSE acc,
           <<>>, AllReports(store))

\* a services list that is not sorted
ServicesUnranked(store, selAccounts) ==
  Names(ServiceTotalsOf(store, selAccounts))

\* the services by descending total: sort((a, b) => b[1] - a[1])
ServicesOf(store, selAccounts) ==
  Names(SortBy(LAMBDA a, b : NumAdd(b.cost, 0 - a.cost) < 0,
               ServiceTotalsOf(store, selAccounts)))

\* the sum of the selected services of one report (sum / accSum)
\* a sum that takes every service of the report once a service is selected
SelectedServiceSumAll(r, selServices) ==
  IF Len(selServices) > 0
  THEN FoldLeft(LAMBDA acc, e : NumAdd(acc, e.cost), 0, r.services)
  ELSE 0

SelectedServiceSum(r, selServices) ==
  IF Len(selServices) > 0
  THEN FoldLeft(LAMBDA acc, e :
                  IF Includes(selServices, e.name) THEN NumAdd(acc, e.cost)
                  ELSE acc,
                0, r.services)
  ELSE 0

AccountChartDataOf(store, selServices) ==
  LET months == SortedMonthsOf(store)
  IN  [i \in 1..Len(months) |->
         [month |-> months[i],
          services |->
            FoldLeft(LAMBDA acc, r :
                       Put(acc, IdentityKey(r),
                           NumAdd(GetOrZero(acc, IdentityKey(r)),
                                  SelectedServiceSum(r, selServices))),
                     <<>>, ReportsOf(store, months[i]))]]

sortedMonths == SortedMonthsOf(reportsByMonth)
accounts == AccountsOf(reportsByMonth)
chartData == ChartDataOf(reportsByMonth, selectedAccounts)
services == ServicesOf(reportsByMonth, selectedAccounts)
displayedServices == selectedServices
displayedSeries ==
  IF aggregationMode = "service" THEN displayedServices ELSE selectedAccounts
displayedMonths == selectedMonths
accountChartData == AccountChartDataOf(reportsByMonth, selectedServices)

\* keys.filter((s) => term === "" ? true : s.toLowerCase().includes(term))
\* with term = text.trim().toLowerCase()
Matches(chars, text) ==
  \/ toLowerCase(trim(text)) = <<>>
  \/ StringIncludes(toLowerCase(chars), toLowerCase(trim(text)))

FilterBy(keys, text) ==
  SelectSeq(keys, LAMBDA s : Matches(Characters(s), text))

filteredAccounts == FilterBy(accounts, accountFilter)
filteredServices == FilterBy(services, serviceFilter)
\* a month is one token
filteredMonths ==
  SelectSeq(sortedMonths, LAMBDA m : Matches(Spell(m), monthFilter))

\* source.filter((row) => setMonths.has(row.month))
FilteredChartDataOf(source, months) ==
  IF Len(months) = 0 THEN <<>>
  ELSE SelectSeq(source, LAMBDA row : Includes(months, row.month))

filteredChartData ==
  FilteredChartDataOf(IF aggregationMode = "service" THEN chartData
                      ELSE accountChartData,
                      displayedMonths)

\* a total without the early return for an empty account selection
TotalCostIgnoringNoAccount(store, selMonths, selAccounts, selServices, mode) ==
  LET series == IF mode = "service" THEN selServices ELSE selAccounts
      PerReport(sum, report) ==
        IF Len(selAccounts) > 0 /\ ~Includes(selAccounts, IdentityKey(report))
          THEN sum
        ELSE IF mode = "service"
          THEN FoldLeft(LAMBDA acc, service :
                          NumAdd(acc, GetOrZero(report.services, service)),
                        sum, series)
        ELSE IF Includes(series, IdentityKey(report))
          THEN NumAdd(sum, SelectedServiceSum(report, selServices))
        ELSE sum
      PerMonth(sum, month) == FoldLeft(PerReport, sum, ReportsOf(store, month))
  IN  IF Len(selMonths) = 0 THEN 0
      ELSE IF Len(series) = 0 THEN 0
      ELSE FoldLeft(PerMonth, 0, selMonths)

\* totalCost for a given store, selections and mode
TotalCostOf(store, selMonths, selAccounts, selServices, mode) ==
  LET series == IF mode = "service" THEN selServices ELSE selAccounts
      PerReport(sum, report) ==
        IF Len(selAccounts) > 0 /\ ~Includes(selAccounts, IdentityKey(report))
          THEN sum
        ELSE IF mode = "service"
          THEN FoldLeft(LAMBDA acc, service :
                          NumAdd(acc, GetOrZero(report.services, service)),
                        sum, series)
        ELSE IF Includes(series, IdentityKey(report))
          THEN NumAdd(sum, SelectedServiceSum(report, selServices))
        ELSE sum
      PerMonth(sum, month) == FoldLeft(PerReport, sum, ReportsOf(store, month))
  IN  IF Len(selMonths) = 0 THEN 0
      ELSE IF Len(series) = 0 THEN 0
      ELSE IF Len(selAccounts) = 0 THEN 0
      ELSE FoldLeft(PerMonth, 0, selMonths)

totalCost ==
  TotalCostOf(reportsByMonth, selectedMonths, selectedAccounts,
              selectedServices, aggregationMode)

(***************************************************************************)
(* The effects that initialise the selections                              *)
(***************************************************************************)
\* One pass of the three useEffect bodies over a rendered state. The views
\* are those of the render the effects belong to, so services is computed
\* with the selected accounts of before the pass.
\* effects without the hasInitialized refs: whenever there are keys, all of
\* them are selected
InitialiseSelectionsAlways(st, accs, svcs, months) ==
  [reportsByMonth |-> st.reportsByMonth,
   selectedAccounts |-> IF Len(accs) > 0 THEN accs ELSE st.selectedAccounts,
   selectedServices |-> IF Len(svcs) > 0 THEN svcs ELSE st.selectedServices,
   selectedMonths |-> IF Len(months) > 0 THEN months ELSE st.selectedMonths,
   hasInitializedAccounts |-> st.hasInitializedAccounts \/ Len(accs) > 0,
   hasInitializedServices |-> st.hasInitializedServices \/ Len(svcs) > 0,
   hasInitializedMonths |-> st.hasInitializedMonths \/ Len(months) > 0]

InitialiseSelections(st, accs, svcs, months) ==
  [reportsByMonth |-> st.reportsByMonth,
   selectedAccounts |->
     IF ~st.hasInitializedAccounts /\ Len(accs) > 0 THEN accs
     ELSE st.selectedAccounts,
   selectedServices |->
     IF ~st.hasInitializedServices /\ Len(svcs) > 0 THEN svcs
     ELSE st.selectedServices,
   selectedMonths |->
     IF ~st.hasInitializedMonths /\ Len(months) > 0 THEN months
     ELSE st.selectedMonths,
   hasInitializedAccounts |-> st.hasInitializedAccounts \/ Len(accs) > 0,
   hasInitializedServices |-> st.hasInitializedServices \/ Len(svcs) > 0,
   hasInitializedMonths |-> st.hasInitializedMonths \/ Len(months) > 0]

EffectPass(st) ==
  InitialiseSelections(st,
                       AccountsOf(st.reportsByMonth),
                       ServicesOf(st.reportsByMonth, st.selectedAccounts),
                       SortedMonthsOf(st.reportsByMonth))

\* The state after the renders and effects that follow a state update: a
\* pass that changes a selection causes a render and one more pass, and
\* after the second pass nothing changes any more.
Settled(st) == EffectPass(EffectPass(st))

\* the store and the selections become store, selA, selM, selS, and the
\* effects run
Update(store, selA, selM, selS) ==
  LET st == Settled([reportsByMonth |-> store,
                     selectedAccounts |-> selA,
                     selectedServices |-> selS,
                     selectedMonths |-> selM,
                     hasInitializedAccounts |-> hasInitializedAccounts,
                     hasInitializedServices |-> hasInitializedServices,
                     hasInitializedMonths |-> hasInitializedMonths])
  IN  /\ reportsByMonth' = st.reportsByMonth
      /\ selectedAccounts' = st.selectedAccounts
      /\ selectedServices' = st.selectedServices
      /\ selectedMonths' = st.selectedMonths
      /\ hasInitializedAccounts' = st.hasInitializedAccounts
      /\ hasInitializedServices' = st.hasInitializedServices
      /\ hasInitializedMonths' = st.hasInitializedMonths

(***************************************************************************)
(* processFiles                                                            *)
(***************************************************************************)
Pending == [status |-> "pending"]

AllSettled(results) == \A i \in 1..Len(results) : results[i].status # "pending"

\* a completion that stores nothing as soon as one file of the call failed
CompleteAllOrNothing(results, stillInFlight) ==
  LET fulfilled == SelectSeq(results, LAMBDA r : r.status = "fulfilled")
      rejected == SelectSeq(results, LAMBDA r : r.status = "rejected")
      nextReports == [i \in 1..Len(fulfilled) |-> fulfilled[i].value.report]
      nextWarnings ==
        FoldLeft(LAMBDA acc, r : acc \o r.value.warnings, <<>>, fulfilled)
      failures == [i \in 1..Len(rejected) |-> rejected[i].reason]
  IN  /\ Update(IF Len(nextReports) > 0 /\ Len(rejected) = 0
                THEN UpsertAll(reportsByMonth, nextReports)
                ELSE reportsByMonth,
                selectedAccounts, selectedMonths, selectedServices)
      /\ warnings' = Take(nextWarnings, WarningLimit)
      /\ errorMessage' = failures
      /\ isParsing' = FALSE
      /\ inFlight' = stillInFlight

\* a completion that replaces the store by the reports of its call
CompleteFromEmpty(results, stillInFlight) ==
  LET fulfilled == SelectSeq(results, LAMBDA r : r.status = "fulfilled")
      rejected == SelectSeq(results, LAMBDA r : r.status = "rejected")
      nextReports == [i \in 1..Len(fulfilled) |-> fulfilled[i].value.report]
      nextWarnings ==
        FoldLeft(LAMBDA acc, r : acc \o r.value.warnings, <<>>, fulfilled)
      failures == [i \in 1..Len(rejected) |-> rejected[i].reason]
  IN  /\ Update(IF Len(nextReports) > 0
                THEN UpsertAll(<<>>, nextReports)
                ELSE reportsByMonth,
                selectedAccounts, selectedMonths, selectedServices)
      /\ warnings' = Take(nextWarnings, WarningLimit)
      /\ errorMessage' = failures
      /\ isParsing' = FALSE
      /\ inFlight' = stillInFlight

\* a completion that shows the failure of the first failed file only
CompleteFirstFailure(results, stillInFlight) ==
  LET fulfilled == SelectSeq(results, LAMBDA r : r.status = "fulfilled")
      rejected == SelectSeq(results, LAMBDA r : r.status = "rejected")
      nextReports == [i \in 1..Len(fulfilled) |-> fulfilled[i].value.report]
      nextWarnings ==
        FoldLeft(LAMBDA acc, r : acc \o r.value.warnings, <<>>, fulfilled)
      failures == [i \in 1..Len(rejected) |-> rejected[i].reason]
  IN  /\ Update(IF Len(nextReports) > 0
                THEN UpsertAll(reportsByMonth, nextReports)
                ELSE reportsByMonth,
                selectedAccounts, selectedMonths, selectedServices)
      /\ warnings' = Take(nextWarnings, WarningLimit)
      /\ errorMessage' = Take(failures, 1)
      /\ isParsing' = FALSE
      /\ inFlight' = stillInFlight

\* the part of processFiles after the await: results is what
\* Promise.allSettled resolved to, stillInFlight the other calls
Complete(results, stillInFlight) ==
  LET fulfilled == SelectSeq(results, LAMBDA r : r.status = "fulfilled")
      rejected == SelectSeq(results, LAMBDA r : r.status = "rejected")
      nextReports == [i \in 1..Len(fulfilled) |-> fulfilled[i].value.report]
      nextWarnings ==
        FoldLeft(LAMBDA acc, r : acc \o r.value.warnings, <<>>, fulfilled)
      failures == [i \in 1..Len(rejected) |-> rejected[i].reason]
  IN  /\ Update(IF Len(nextReports) > 0
                THEN UpsertAll(reportsByMonth, nextReports)
                ELSE reportsByMonth,
                selectedAccounts, selectedMonths, selectedServices)
      /\ warnings' = Take(nextWarnings, WarningLimit)
      /\ errorMessage' = failures
      /\ isParsing' = FALSE
      /\ inFlight' = stillInFlight

\* processFiles(files) up to the await. A file whose name has no month is
\* rejected at once; the others are handed to the parsing layer. The call
\* with no file returns at once and changes nothing.
processFiles(files) ==
  LET results == [i \in 1..Len(files) |->
                    IF extractMonthFromFileName(files[i].name) = ""
                    THEN parseMonthlyReport(files[i], FALSE)
                    ELSE Pending]
  IN  /\ uploaded + Len(files) <= MaxUploaded
      /\ Len(inFlight) < MaxInFlight
      /\ uploaded' = uploaded + Len(files)
      /\ IF AllSettled(results)
         THEN Complete(results, inFlight)
         ELSE /\ isParsing' = TRUE
              /\ inFlight' = Append(inFlight, [files |-> files, results |-> results])
              /\ UNCHANGED <<reportsByMonth, errorMessage, warnings,
                             selectedAccounts, selectedMonths, selectedServices,
                             hasInitializedAccounts, hasInitializedMonths,
                             hasInitializedServices>>
      /\ UNCHANGED <<aggregationMode, parseVars, filterTexts>>

\* the result of file i moved behind the others
MovedToEnd(results, i) ==
  [j \in 1..Len(results) |->
     IF j < i THEN results[j]
     ELSE IF j < Len(results) THEN results[j + 1] ELSE results[i]]

\* a completion that takes the files in the order in which they settled:
\* the file that settles last is applied last
settleInCompletionOrder(b, i, readFails) ==
  LET call == inFlight[b]
      results == [call.results EXCEPT
                    ![i] = parseMonthlyReport(call.files[i], readFails)]
      others == [j \in 1..(Len(inFlight) - 1) |->
                   IF j < b THEN inFlight[j] ELSE inFlight[j + 1]]
  IN  /\ call.results[i].status = "pending"
      /\ IF AllSettled(results)
         THEN Complete(MovedToEnd(results, i), others)
         ELSE /\ inFlight' = [inFlight EXCEPT ![b].results = results]
              /\ UNCHANGED <<reportsByMonth, errorMessage, warnings, isParsing,
                             selectedAccounts, selectedMonths, selectedServices,
                             hasInitializedAccounts, hasInitializedMonths,
                             hasInitializedServices>>
      /\ UNCHANGED <<aggregationMode, uploaded, parseVars, filterTexts>>

\* a parsing layer whose every parsed file is stored as soon as it settles
settleStoringEach(b, i, readFails) ==
  LET call == inFlight[b]
      results == [call.results EXCEPT
                    ![i] = parseMonthlyReport(call.files[i], readFails)]
      others == [j \in 1..(Len(inFlight) - 1) |->
                   IF j < b THEN inFlight[j] ELSE inFlight[j + 1]]
  IN  /\ call.results[i].status = "pending"
      /\ IF AllSettled(results)
         THEN Complete(results, others)
         ELSE /\ inFlight' = [inFlight EXCEPT ![b].results = results]
              /\ Update(IF results[i].status = "fulfilled"
                        THEN UpsertAll(reportsByMonth,
                                       <<results[i].value.report>>)
                        ELSE reportsByMonth,
                        selectedAccounts, selectedMonths, selectedServices)
              /\ UNCHANGED <<errorMessage, warnings, isParsing>>
      /\ UNCHANGED <<aggregationMode, uploaded, parseVars, filterTexts>>

\* the parsing layer calls complete or error for file i of call b; when it
\* was the last pending file of the call, the call resumes after its await
settle(b, i, readFails) ==
  LET call == inFlight[b]
      results == [call.results EXCEPT
                    ![i] = parseMonthlyReport(call.files[i], readFails)]
      others == [j \in 1..(Len(inFlight) - 1) |->
                   IF j < b THEN inFlight[j] ELSE inFlight[j + 1]]
  IN  /\ call.results[i].status = "pending"
      /\ IF AllSettled(results)
         THEN Complete(results, others)
         ELSE /\ inFlight' = [inFlight EXCEPT ![b].results = results]
              /\ UNCHANGED <<reportsByMonth, errorMessage, warnings, isParsing,
                             selectedAccounts, selectedMonths, selectedServices,
                             hasInitializedAccounts, hasInitializedMonths,
                             hasInitializedServices>>
      /\ UNCHANGED <<aggregationMode, uploaded, parseVars, filterTexts>>

\* a clear that also drops the calls in flight
clearReportsCancelling ==
  /\ Len(sortedMonths) > 0
  /\ Update(<<>>, selectedAccounts, selectedMonths, selectedServices)
  /\ warnings' = <<>>
  /\ errorMessage' = <<>>
  /\ inFlight' = <<>>
  /\ UNCHANGED <<isParsing, aggregationMode, uploaded, parseVars, filterTexts>>

\* the button that calls it is rendered while sortedMonths is not empty
clearReports ==
  /\ Len(sortedMonths) > 0
  /\ Update(<<>>, selectedAccounts, selectedMonths, selectedServices)
  /\ warnings' = <<>>
  /\ errorMessage' = <<>>
  /\ UNCHANGED <<isParsing, aggregationMode, inFlight, uploaded, parseVars,
                 filterTexts>>

(***************************************************************************)
(* The selections                                                          *)
(***************************************************************************)
\* a toggle that only ever adds
ToggleAppending(prev, x) == Append(prev, x)

\* prev.includes(x) ? prev.filter((y) => y !== x) : [...prev, x]
Toggle(prev, x) == IF Includes(prev, x) THEN Without(prev, x) ELSE Append(prev, x)

\* slice(0, 10) of selectTop10
TopCount == 10

filterFrame ==
  UNCHANGED <<errorMessage, warnings, isParsing, aggregationMode, inFlight,
              uploaded, parseVars, filterTexts>>

\* a checkbox that empties the store
toggleAccountClearing(acc) ==
  /\ Includes(filteredAccounts, acc)
  /\ Update(<<>>, Toggle(selectedAccounts, acc), selectedMonths,
            selectedServices)
  /\ filterFrame

\* a checkbox exists for every key the text filter of its selector lets
\* through
toggleAccount(acc) ==
  /\ Includes(filteredAccounts, acc)
  /\ Update(reportsByMonth, Toggle(selectedAccounts, acc), selectedMonths,
            selectedServices)
  /\ filterFrame

selectAllAccounts ==
  /\ Update(reportsByMonth, accounts, selectedMonths, selectedServices)
  /\ filterFrame

clearSelectedAccounts ==
  /\ Update(reportsByMonth, <<>>, selectedMonths, selectedServices)
  /\ filterFrame

toggleMonth(month) ==
  /\ Includes(filteredMonths, month)
  /\ Update(reportsByMonth, selectedAccounts, Toggle(selectedMonths, month),
            selectedServices)
  /\ filterFrame

selectAllMonths ==
  /\ Update(reportsByMonth, selectedAccounts, sortedMonths, selectedServices)
  /\ filterFrame

clearSelectedMonths ==
  /\ Update(reportsByMonth, selectedAccounts, <<>>, selectedServices)
  /\ filterFrame

toggleService(service) ==
  /\ Includes(filteredServices, service)
  /\ Update(reportsByMonth, selectedAccounts, selectedMonths,
            Toggle(selectedServices, service))
  /\ filterFrame

\* a select-all that takes the services of every stored report
selectAllServicesOfStore ==
  /\ Update(reportsByMonth, selectedAccounts, selectedMonths,
            ServicesOf(reportsByMonth, <<>>))
  /\ filterFrame

selectAllServices ==
  /\ Update(reportsByMonth, selectedAccounts, selectedMonths, services)
  /\ filterFrame

clearSelectedServices ==
  /\ Update(reportsByMonth, selectedAccounts, selectedMonths, <<>>)
  /\ filterFrame

\* a Top 10 button without the slice
selectTopWithoutLimit ==
  /\ Update(reportsByMonth, selectedAccounts, selectedMonths, services)
  /\ filterFrame

selectTop10 ==
  /\ Update(reportsByMonth, selectedAccounts, selectedMonths,
            Take(services, TopCount))
  /\ filterFrame

setAggregationMode(mode) ==
  /\ aggregationMode' = mode
  /\ UNCHANGED <<reportsByMonth, errorMessage, warnings, isParsing,
                 selectedAccounts, selectedMonths, selectedServices,
                 hasInitializedAccounts, hasInitializedMonths,
                 hasInitializedServices, inFlight, uploaded, parseVars,
                 filterTexts>>

\* typing into a filter input
setAccountFilter(text) ==
  /\ accountFilter' = text
  /\ UNCHANGED <<reportsByMonth, errorMessage, warnings, isParsing,
                 selectedAccounts, selectedMonths, selectedServices,
                 hasInitializedAccounts, hasInitializedMonths,
                 hasInitializedServices, aggregationMode, inFlight, uploaded,
                 monthFilter, serviceFilter, parseVars>>

setMonthFilter(text) ==
  /\ monthFilter' = text
  /\ UNCHANGED <<reportsByMonth, errorMessage, warnings, isParsing,
                 selectedAccounts, selectedMonths, selectedServices,
                 hasInitializedAccounts, hasInitializedMonths,
                 hasInitializedServices, aggregationMode, inFlight, uploaded,
                 accountFilter, serviceFilter, parseVars>>

\* a service filter input that unticks the services it hides
setServiceFilterDeselecting(text) ==
  /\ serviceFilter' = text
  /\ selectedServices' =
       SelectSeq(selectedServices,
                 LAMBDA s : Includes(FilterBy(services, text), s))
  /\ UNCHANGED <<reportsByMonth, errorMessage, warnings, isParsing,
                 selectedAccounts, selectedMonths,
                 hasInitializedAccounts, hasInitializedMonths,
                 hasInitializedServices, aggregationMode, inFlight, uploaded,
                 accountFilter, monthFilter, parseVars>>

setServiceFilter(text) ==
  /\ serviceFilter' = text
  /\ UNCHANGED <<reportsByMonth, errorMessage, warnings, isParsing,
                 selectedAccounts, selectedMonths, selectedServices,
                 hasInitializedAccounts, hasInitializedMonths,
                 hasInitializedServices, aggregationMode, inFlight, uploaded,
                 accountFilter, monthFilter, parseVars>>

(***************************************************************************)
(* Specification of the page. The three filter inputs are left empty: what *)
(* typing into them does is the matter of SpecFilters.                     *)
(***************************************************************************)
NoFile == [name |-> <<>>, data |-> <<>>, errors |-> <<>>]

InitApp ==
  /\ reportsByMonth = <<>>
  /\ errorMessage = <<>>
  /\ warnings = <<>>
  /\ isParsing = FALSE
  /\ selectedAccounts = <<>>
  /\ selectedMonths = <<>>
  /\ selectedServices = <<>>
  /\ hasInitializedAccounts = FALSE
  /\ hasInitializedMonths = FALSE
  /\ hasInitializedServices = FALSE
  /\ aggregationMode = "service"
  /\ inFlight = <<>>
  /\ uploaded = 0
  /\ accountFilter = <<>>
  /\ monthFilter = <<>>
  /\ serviceFilter = <<>>

Init ==
  /\ InitApp
  /\ file = NoFile
  /\ parsed = Pending

Next ==
  \/ \E files \in Batches : processFiles(files)
  \/ \E b \in 1..Len(inFlight) : \E i \in 1..Len(inFlight[b].files) :
       \E readFails \in BOOLEAN : settle(b, i, readFails)
  \/ clearReports
  \/ \E acc \in Range(accounts) : toggleAccount(acc)
  \/ selectAllAccounts
  \/ clearSelectedAccounts
  \/ \E month \in Range(sortedMonths) : toggleMonth(month)
  \/ selectAllMonths
  \/ clearSelectedMonths
  \/ \E service \in Range(services) : toggleService(service)
  \/ selectAllServices
  \/ clearSelectedServices
  \/ selectTop10
  \/ \E mode \in {"service", "account"} : setAggregationMode(mode)

Spec == Init /\ [][Next]_vars

(***************************************************************************)
(* Specification of parseMonthlyReport alone: any file of at most MaxRows  *)
(* rows is parsed once                                                     *)
(***************************************************************************)
ParseNames ==
  {<<"monthly-report-", "2024-05", "-", "111", ".csv">>,
   <<"monthly-report-", "2024-05", "-", "111", " (1)", ".csv">>,
   <<"monthly-report-", "2024-05", ".csv">>,
   <<"report-", "2024-05", ".csv">>}

ParseCosts ==
  {<<>>, <<"0">>, <<"1">>, <<"$", "1", ",", "0">>, <<"-", "1">>, <<"x">>,
   <<"Infinity">>}

\* every cost under two service names, one of them padded with blanks, and
\* a row without product name and one with a blank product name
ParseRows ==
  {Row(n, c) : n \in {S3, <<" ">> \o Config \o <<" ">>}, c \in ParseCosts}
    \cup {Row(<<>>, <<"1">>), Row(<<" ">>, <<"1">>)}

ParseFiles(maxRows) ==
  {[name |-> n, data |-> d, errors |-> <<>>] :
     n \in ParseNames, d \in SeqsUpTo(ParseRows, maxRows)}

InitParse ==
  /\ InitApp
  /\ file \in ParseFiles(MaxRows)
  /\ parsed = Pending

ParseFile ==
  /\ parsed = Pending
  /\ \E readFails \in BOOLEAN : parsed' = parseMonthlyReport(file, readFails)
  /\ UNCHANGED <<file, appVars>>

NextParse == ParseFile

SpecParse == InitParse /\ [][NextParse]_vars

(***************************************************************************)
(* Specification of the filters over a loaded page: some files, one of     *)
(* them with more than TopCount services, were taken in by one call of     *)
(* processFiles, then the user works the account and service filters       *)
(***************************************************************************)
ViewFiles == {File111May, File222May, FileJuneCopy, File333MayWide}

\* the store after a call of processFiles with the files of batch
StoreOf(batch) ==
  UpsertAll(<<>>, [i \in 1..Len(batch) |->
                     parseMonthlyReport(batch[i], FALSE).value.report])

\* the warnings shown after that call
WarningsOf(batch) ==
  Take(FoldLeft(LAMBDA acc, f :
                  acc \o parseMonthlyReport(f, FALSE).value.warnings,
                <<>>, batch),
       WarningLimit)

\* the page once the effects that follow the first commit have run
LoadedPage(batch) ==
  Settled([reportsByMonth |-> StoreOf(batch),
           selectedAccounts |-> <<>>,
           selectedServices |-> <<>>,
           selectedMonths |-> <<>>,
           hasInitializedAccounts |-> FALSE,
           hasInitializedServices |-> FALSE,
           hasInitializedMonths |-> FALSE])

InitViews ==
  /\ \E batch \in SeqsUpTo(ViewFiles, MaxFiles) \ {<<>>} :
       /\ reportsByMonth = LoadedPage(batch).reportsByMonth
       /\ selectedAccounts = LoadedPage(batch).selectedAccounts
       /\ selectedServices = LoadedPage(batch).selectedServices
       /\ selectedMonths = LoadedPage(batch).selectedMonths
       /\ hasInitializedAccounts = LoadedPage(batch).hasInitializedAccounts
       /\ hasInitializedServices = LoadedPage(batch).hasInitializedServices
       /\ hasInitializedMonths = LoadedPage(batch).hasInitializedMonths
       /\ warnings = WarningsOf(batch)
       /\ uploaded = Len(batch)
  /\ errorMessage = <<>>
  /\ isParsing = FALSE
  /\ aggregationMode = "service"
  /\ inFlight = <<>>
  /\ accountFilter = <<>>
  /\ monthFilter = <<>>
  /\ serviceFilter = <<>>
  /\ file = NoFile
  /\ parsed = Pending

NextViews ==
  \/ \E acc \in Range(accounts) : toggleAccount(acc)
  \/ selectAllAccounts
  \/ clearSelectedAccounts
  \/ selectAllServices
  \/ clearSelectedServices
  \/ selectTop10

SpecViews == InitViews /\ [][NextViews]_vars

(***************************************************************************)
(* Specification of the selectors over a loaded page: one call of          *)
(* processFiles took in some files, then the user types into the filter    *)
(* inputs, ticks the boxes shown, uses the buttons and switches the mode   *)
(***************************************************************************)
FilterFiles == {File111May, File222May, FileJuneCopy}

\* texts typed into the inputs: blank, padded, in the other case, or
\* matching nothing
AccountFilterTexts == {<<>>, <<" ", "2", "2", " ">>, <<"C", "S", "V">>}
MonthFilterTexts == {<<>>, <<"-", "0", "6">>}
ServiceFilterTexts == {<<>>, <<" ">>, <<"s", "3">>, <<"C", "O", "N">>}

InitFilters ==
  /\ \E batch \in SeqsUpTo(FilterFiles, MaxFiles) \ {<<>>} :
       /\ reportsByMonth = LoadedPage(batch).reportsByMonth
       /\ selectedAccounts = LoadedPage(batch).selectedAccounts
       /\ selectedServices = LoadedPage(batch).selectedServices
       /\ selectedMonths = LoadedPage(batch).selectedMonths
       /\ hasInitializedAccounts = LoadedPage(batch).hasInitializedAccounts
       /\ hasInitializedServices = LoadedPage(batch).hasInitializedServices
       /\ hasInitializedMonths = LoadedPage(batch).hasInitializedMonths
       /\ warnings = WarningsOf(batch)
       /\ uploaded = Len(batch)
  /\ errorMessage = <<>>
  /\ isParsing = FALSE
  /\ aggregationMode = "service"
  /\ inFlight = <<>>
  /\ accountFilter = <<>>
  /\ monthFilter = <<>>
  /\ serviceFilter = <<>>
  /\ file = NoFile
  /\ parsed = Pending

NextFilters ==
  \/ \E text \in AccountFilterTexts : setAccountFilter(text)
  \/ \E text \in MonthFilterTexts : setMonthFilter(text)
  \/ \E text \in ServiceFilterTexts : setServiceFilter(text)
  \/ \E acc \in Range(filteredAccounts) : toggleAccount(acc)
  \/ selectAllAccounts
  \/ clearSelectedAccounts
  \/ \E month \in Range(filteredMonths) : toggleMonth(month)
  \/ selectAllMonths
  \/ clearSelectedMonths
  \/ \E service \in Range(filteredServices) : toggleService(service)
  \/ selectAllServices
  \/ clearSelectedServices
  \/ selectTop10
  \/ \E mode \in {"service", "account"} : setAggregationMode(mode)

SpecFilters == InitFilters /\ [][NextFilters]_vars

(***************************************************************************)
(* Specification of the whole page over two files: uploads, clear, the     *)
(* selectors with their filter inputs and the mode switch                  *)
(***************************************************************************)
PageFiles == {File111May, File222May}

PageAccountTexts == {<<>>, <<" ", "2", "2", " ">>}
PageMonthTexts == {<<>>, <<"-", "0", "6">>}
PageServiceTexts == {<<>>, <<"s", "3">>}

NextPage ==
  \/ \E files \in SeqsUpTo(PageFiles, MaxFiles) \ {<<>>} : processFiles(files)
  \/ \E b \in 1..Len(inFlight) : \E i \in 1..Len(inFlight[b].files) :
       \E readFails \in BOOLEAN : settle(b, i, readFails)
  \/ clearReports
  \/ \E text \in PageAccountTexts : setAccountFilter(text)
  \/ \E text \in PageMonthTexts : setMonthFilter(text)
  \/ \E text \in PageServiceTexts : setServiceFilter(text)
  \/ \E acc \in Range(filteredAccounts) : toggleAccount(acc)
  \/ selectAllAccounts
  \/ clearSelectedAccounts
  \/ \E month \in Range(filteredMonths) : toggleMonth(month)
  \/ selectAllMonths
  \/ clearSelectedMonths
  \/ \E service \in Range(filteredServices) : toggleService(service)
  \/ selectAllServices
  \/ clearSelectedServices
  \/ selectTop10
  \/ \E mode \in {"service", "account"} : setAggregationMode(mode)

SpecPage == Init /\ [][NextPage]_vars

(***************************************************************************)
(* Properties of the report store                                          *)
(***************************************************************************)
\* the report of a file of the catalogue whose parse succeeds
ReportOf(f) == parseMonthlyReport(f, FALSE).value.report

\* the reports an upload can hand to the store
CandidateReports ==
  {ReportOf(f) : f \in {g \in Files : extractMonthFromFileName(g.name) # ""}}

StoredMonths == Range(MonthKeys(reportsByMonth))

May == "2024-05"
June == "2024-06"

\* no two reports of one month of the store have the same identity key, and
\* every report is filed under its own month
UniqueKeys(store) ==
  \A e \in Range(store) :
    /\ \A i, j \in 1..Len(e.reports) :
         IdentityKey(e.reports[i]) = IdentityKey(e.reports[j]) => i = j
    /\ \A i \in 1..Len(e.reports) : e.reports[i].month = e.month

KeysOfMonth(store, month) ==
  {IdentityKey(r) : r \in Range(ReportsOf(store, month))}

\* C1: in every reachable state each month's list holds at most one report
\* per identity key; upserting a report whose (month, key) is stored leaves
\* the length of the month's list unchanged and stores the report, and
\* upserting a report twice gives the same store as upserting it once.
C1_OneReportPerKey ==
  /\ UniqueKeys(reportsByMonth)
  /\ \A r \in CandidateReports :
       LET once == Upsert(reportsByMonth, r)
       IN  /\ UniqueKeys(once)
           /\ r \in Range(ReportsOf(once, r.month))
           /\ IdentityKey(r) \in KeysOfMonth(reportsByMonth, r.month)
                => Len(ReportsOf(once, r.month))
                     = Len(ReportsOf(reportsByMonth, r.month))
           /\ Upsert(once, r) = once

\* C1 witness: two files with the same month and account were taken in (no
\* file failed, none is pending) and the month holds a single report, the
\* revised one
C1_Witness ==
  /\ uploaded = 2
  /\ inFlight = <<>>
  /\ errorMessage = <<>>
  /\ reportsByMonth =
       <<[month |-> May, reports |-> <<ReportOf(File111MayRevised)>>]>>

\* C2: an upsert for month m replaces the entry with the same identity key
\* at its position, keeps every other entry of m as it is and where it is,
\* leaves the lists of all other months and the order of the months
\* unchanged; a report with a new key goes to the end of m's list.
C2_UpsertFrame ==
  \A r \in CandidateReports :
    LET next == Upsert(reportsByMonth, r)
        before == ReportsOf(reportsByMonth, r.month)
        after == ReportsOf(next, r.month)
        at == {i \in 1..Len(before) : IdentityKey(before[i]) = IdentityKey(r)}
    IN  /\ \A m \in StoredMonths \ {r.month} :
             ReportsOf(next, m) = ReportsOf(reportsByMonth, m)
        /\ MonthKeys(next) =
             IF r.month \in StoredMonths THEN MonthKeys(reportsByMonth)
             ELSE Append(MonthKeys(reportsByMonth), r.month)
        /\ IF at = {} THEN after = Append(before, r)
           ELSE /\ Len(after) = Len(before)
                /\ \A i \in 1..Len(before) :
                     after[i] = IF i \in at THEN r ELSE before[i]

\* C2 witness: three files were taken in, May holds two reports, so one
\* replaced another: the revised report of account 111 stands first, in
\* front of the report of account 222
C2_Witness ==
  /\ uploaded = 3
  /\ inFlight = <<>>
  /\ errorMessage = <<>>
  /\ reportsByMonth =
       <<[month |-> May,
          reports |-> <<ReportOf(File111MayRevised), ReportOf(File222May)>>]>>

\* the names of all services of all stored reports
AllServiceNames(store) ==
  UNION {Keys(r.services) : r \in Range(AllReports(store))}

ChartRow(month) ==
  chartData[CHOOSE i \in 1..Len(chartData) : chartData[i].month = month]

\* C3: a month for which reports of two different accounts were uploaded
\* has exactly two entries, and with both accounts selected the month's
\* service totals are, service by service, the sum of the two reports' costs
\* (0 for a service a report does not have).
C3_TwoAccountsSum ==
  /\ \A r \in CandidateReports :
       LET m == r.month
           before == ReportsOf(reportsByMonth, m)
       IN  (Len(before) = 1 /\ IdentityKey(before[1]) # IdentityKey(r))
             => Len(ReportsOf(Upsert(reportsByMonth, r), m)) = 2
  /\ \A m \in StoredMonths :
       LET arr == ReportsOf(reportsByMonth, m)
       IN  (/\ Len(arr) = 2
            /\ Includes(selectedAccounts, IdentityKey(arr[1]))
            /\ Includes(selectedAccounts, IdentityKey(arr[2])))
             => /\ Keys(ChartRow(m).services)
                     = Keys(arr[1].services) \cup Keys(arr[2].services)
                /\ \A s \in AllServiceNames(reportsByMonth) :
                     GetOrZero(ChartRow(m).services, s)
                       = NumAdd(GetOrZero(arr[1].services, s),
                                GetOrZero(arr[2].services, s))

\* C3 witness: accounts 111 and 222 both have a report for May, both are
\* selected, and Amazon S3 costs 1 in one report and 2 in the other
C3_Witness ==
  /\ ReportsOf(reportsByMonth, May) = <<ReportOf(File111May), ReportOf(File222May)>>
  /\ Includes(selectedAccounts, <<"111">>)
  /\ Includes(selectedAccounts, <<"222">>)
  /\ GetOrZero(ChartRow(May).services, S3) = 3

(***************************************************************************)
(* Properties of the selections and the totals                             *)
(***************************************************************************)
\* C4, as claimed: with no account selected the per-month service totals
\* contain no cost of any stored report.
C4_EmptyAccountsExcludeAll ==
  Len(selectedAccounts) = 0
    => \A i \in 1..Len(chartData) : chartData[i].services = <<>>

Modes == {"service", "account"}

\* C5: in both aggregation modes the grand total is 0 when the selected
\* accounts, the selected months or the selected services are empty.
C5_EmptySelectionZeroTotal ==
  (Len(selectedAccounts) = 0 \/ Len(selectedMonths) = 0
     \/ Len(selectedServices) = 0)
    => \A mode \in Modes :
         TotalCostOf(reportsByMonth, selectedMonths, selectedAccounts,
                     selectedServices, mode) = 0

\* the grand total with every stored month, account and service selected
TotalOfEverything(mode) ==
  TotalCostOf(reportsByMonth, sortedMonths, accounts,
              ServicesOf(reportsByMonth, <<>>), mode)

\* C5 witness: the page shows the account view, no service is selected, and
\* a report with cost belongs to a selected account and a selected month
C5_Witness ==
  /\ aggregationMode = "account"
  /\ Len(selectedServices) = 0
  /\ \E r \in Range(AllReports(reportsByMonth)) :
       /\ Includes(selectedAccounts, IdentityKey(r))
       /\ Includes(selectedMonths, r.month)
       /\ r.total # 0
  /\ TotalOfEverything("account") # 0

\* C6, as claimed: clearReports leaves the store, the universes of months,
\* accounts and services, and the three selections empty.
C6_ClearResetsSelections ==
  [][clearReports =>
       /\ reportsByMonth' = <<>>
       /\ SortedMonthsOf(reportsByMonth') = <<>>
       /\ AccountsOf(reportsByMonth') = <<>>
       /\ AllServiceNames(reportsByMonth') = {}
       /\ selectedAccounts' = <<>>
       /\ selectedMonths' = <<>>
       /\ selectedServices' = <<>>]_vars

\* C7, as claimed: every selected account is the identity key of a stored
\* report, every selected month a stored month, every selected service a
\* service of a stored report.
C7_SelectionsWithinStore ==
  /\ Range(selectedAccounts) \subseteq Range(accounts)
  /\ Range(selectedMonths) \subseteq StoredMonths
  /\ Range(selectedServices) \subseteq AllServiceNames(reportsByMonth)

(***************************************************************************)
(* Properties of parseMonthlyReport (checked under SpecParse)              *)
(***************************************************************************)
\* What the rows drawn in SpecParse are meant to be: the service a product
\* name stands for (<<>>: none) and the cost a cost text stands for (0:
\* missing, not a number, not finite or zero).
MeantService(name) ==
  CASE name = <<>> -> <<>>
    [] name = <<" ">> -> <<>>
    [] name = S3 -> S3
    [] name = <<" ", "AWS Config", " ">> -> Config

MeantCost(cost) ==
  CASE cost = <<>> -> 0
    [] cost = <<"0">> -> 0
    [] cost = <<"1">> -> 1
    [] cost = <<"$", "1", ",", "0">> -> 10
    [] cost = <<"-", "1">> -> 0 - 1
    [] cost = <<"x">> -> 0
    [] cost = <<"Infinity">> -> 0

Skipped(row) == MeantService(row.product_name) = <<>> \/ MeantCost(row.cost) = 0

\* the rows of the file that are not skipped, in file order
KeptRows == SelectSeq(file.data, LAMBDA row : ~Skipped(row))

\* the costs of a sequence of rows added up in order
SumOfRows(rows) ==
  FoldLeft(LAMBDA sum, row : NumAdd(sum, MeantCost(row.cost)), 0, rows)

Fulfilled == parsed.status = "fulfilled"

parsedReport == parsed.value.report

\* the values of a services map added up in the order perm visits them
SumOfValues(rec, perm) ==
  FoldLeft(LAMBDA sum, i : NumAdd(sum, rec[perm[i]].cost), 0,
           [i \in 1..Len(rec) |-> i])

\* C8, as claimed: the total of a report equals the sum of the values of its
\* services map (added in some order), which equals the sum of the costs of
\* the rows that are not skipped.
C8_TotalIsSumOfServices ==
  Fulfilled =>
    /\ parsedReport.total = SumOfRows(KeptRows)
    /\ \E perm \in Permutations(1..Len(parsedReport.services)) :
         parsedReport.total = SumOfValues(parsedReport.services, perm)

\* C9: a row is skipped exactly when its product name is empty or blank or
\* its cost is missing, not a number, not finite or zero; every other row
\* adds its cost to the entry of its trimmed product name. So the keys of
\* services are the services of the kept rows, and a service whose rows are
\* all skipped is no key.
C9_RowsSkippedOrAdded ==
  Fulfilled =>
    /\ Keys(parsedReport.services) =
         {MeantService(row.product_name) : row \in Range(KeptRows)}
    /\ \A s \in Keys(parsedReport.services) :
         GetOrZero(parsedReport.services, s) =
           SumOfRows(SelectSeq(KeptRows,
                               LAMBDA row : MeantService(row.product_name) = s))

\* C9 witness: two Amazon S3 rows with a price and one AWS Config row that
\* costs 0 give a services map with the single key Amazon S3
C9_Witness ==
  /\ Fulfilled
  /\ file.data = <<Row(S3, <<"$", "1", ",", "0">>), Row(S3, <<"1">>),
                   Row(<<" ", "AWS Config", " ">>, <<"0">>)>>
  /\ Keys(parsedReport.services) = {S3}

\* C10, as claimed: every value of the services map of a report is positive
\* and its total is not negative.
C10_CostsPositive ==
  Fulfilled =>
    /\ \A i \in 1..Len(parsedReport.services) : parsedReport.services[i].cost > 0
    /\ parsedReport.total >= 0

HasNegativeRow == \E row \in Range(KeptRows) : MeantCost(row.cost) < 0

\* C10, amended: rows whose cost is zero are discarded, rows whose cost is
\* negative are kept. A report built from rows none of which has a negative
\* cost has only positive values and a total that is not negative; a row
\* with a negative cost makes its service a key of the services map.
C10_ZeroDiscardedNegativeKept ==
  Fulfilled =>
    /\ ~HasNegativeRow =>
         /\ \A i \in 1..Len(parsedReport.services) : parsedReport.services[i].cost > 0
         /\ parsedReport.total >= 0
    /\ \A row \in Range(file.data) :
         (MeantService(row.product_name) # <<>> /\ MeantCost(row.cost) < 0)
           => MeantService(row.product_name) \in Keys(parsedReport.services)

\* C10 witness: a credit row and a zero-cost row of Amazon S3: the credit is
\* the value of Amazon S3 and the total
C10_Witness ==
  /\ Fulfilled
  /\ file.data = <<Row(S3, <<"-", "1">>), Row(S3, <<"0">>)>>
  /\ parsedReport.services = <<[name |-> S3, cost |-> 0 - 1]>>
  /\ parsedReport.total = 0 - 1

(***************************************************************************)
(* Properties of a call of processFiles as a whole                         *)
(***************************************************************************)
\* what the promises of a call stand at when processFiles reaches its await
ResultsAtCall(files) ==
  [j \in 1..Len(files) |->
     IF extractMonthFromFileName(files[j].name) = ""
     THEN parseMonthlyReport(files[j], FALSE) ELSE Pending]

\* what the promises of call b stand at once file i settled
ResultsAfter(b, i, readFails) ==
  [inFlight[b].results EXCEPT
     ![i] = parseMonthlyReport(inFlight[b].files[i], readFails)]

\* the positions of the files of a call that gave a report
Succeeded(results) ==
  {j \in 1..Len(results) : results[j].status = "fulfilled"}

StoredReports(store) == Range(AllReports(store))

\* the step stores the reports of the files that gave one, and nothing else:
\* every report new in the store is the report of such a file, the report of
\* such a file is in the store unless a later file of the call with the same
\* month and key took its place, and no stored report bears a name without
\* month
StoresSucceededOnly(results) ==
  /\ StoredReports(reportsByMonth') \ StoredReports(reportsByMonth)
       \subseteq {results[j].value.report : j \in Succeeded(results)}
  /\ \A j \in Succeeded(results) :
       \/ results[j].value.report \in StoredReports(reportsByMonth')
       \/ \E k \in Succeeded(results) :
            /\ k > j
            /\ results[k].value.report.month = results[j].value.report.month
            /\ IdentityKey(results[k].value.report)
                 = IdentityKey(results[j].value.report)
  /\ Succeeded(results) = {} => reportsByMonth' = reportsByMonth
  /\ \A r \in StoredReports(reportsByMonth') :
       extractMonthFromFileName(r.fileName) # ""

\* C11: when a call of processFiles completes, a file that failed (no month
\* in its name, or a read error) has put nothing into the store, and the
\* reports of the files of the same call that were parsed are stored.
C11_FailedFileStoresNothing ==
  [][/\ (uploaded' # uploaded /\ Len(inFlight') = Len(inFlight)) =>
          \A files \in Batches :
            (AllSettled(ResultsAtCall(files)) /\ processFiles(files))
              => StoresSucceededOnly(ResultsAtCall(files))
     /\ Len(inFlight') < Len(inFlight) =>
          \A b \in 1..Len(inFlight) : \A i \in 1..Len(inFlight[b].files) :
            \A readFails \in BOOLEAN :
              (AllSettled(ResultsAfter(b, i, readFails))
                 /\ settle(b, i, readFails))
                => StoresSucceededOnly(ResultsAfter(b, i, readFails))]_vars

\* C11 witness: a call with report-2024-05.csv and the May file of account
\* 111 completed: the failure of the first is shown, the report of the
\* second is the only content of the store
C11_Witness ==
  /\ uploaded = 2
  /\ inFlight = <<>>
  /\ errorMessage = <<[kind |-> "no month", fileName |-> FileNoPrefix.name]>>
  /\ reportsByMonth = <<[month |-> May, reports |-> <<ReportOf(File111May)>>]>>

(***************************************************************************)
(* Properties of the file name patterns (checked under SpecParse)          *)
(***************************************************************************)
NameWithAccount == <<"monthly-report-", "2024-05", "-", "111", ".csv">>
NameOfCopy == <<"monthly-report-", "2024-05", "-", "111", " (1)", ".csv">>
NameMonthOnly == <<"monthly-report-", "2024-05", ".csv">>
NameWithoutPrefix == <<"report-", "2024-05", ".csv">>

RejectedForMonth ==
  parsed.status = "rejected" /\ parsed.reason.kind = "no month"

\* C12, as claimed: monthly-report-2024-05.csv is accepted (it fails only
\* when the parsing layer cannot read it) and gives a report for 2024-05
\* without accountId whose identity key is the file name.
C12_MonthOnlyNameAccepted ==
  (file.name = NameMonthOnly /\ parsed.status # "pending")
    => /\ ~RejectedForMonth
       /\ Fulfilled =>
            /\ parsedReport.month = "2024-05"
            /\ parsedReport.accountId = undefined
            /\ IdentityKey(parsedReport) = file.name

\* C12, amended: the account id is optional, the '-' behind the month is
\* not. A name with the prefix, a month and '-' but without a run of digits
\* directly in front of .csv is accepted, its report has no accountId and
\* its identity key is the file name; with the run of digits the report has
\* that accountId as key; a name whose month is directly followed by .csv,
\* or without the prefix, is rejected for its month.
C12_AccountOptionalHyphenRequired ==
  parsed.status # "pending" =>
    /\ RejectedForMonth <=> file.name \in {NameMonthOnly, NameWithoutPrefix}
    /\ (Fulfilled /\ file.name = NameOfCopy) =>
         /\ parsedReport.month = "2024-05"
         /\ parsedReport.accountId = undefined
         /\ IdentityKey(parsedReport) = NameOfCopy
    /\ (Fulfilled /\ file.name = NameWithAccount) =>
         /\ parsedReport.month = "2024-05"
         /\ parsedReport.accountId = <<"111">>
         /\ IdentityKey(parsedReport) = <<"111">>

\* C12 witness: the renamed copy was parsed: no accountId, the file name is
\* the key
C12_Witness ==
  /\ Fulfilled
  /\ file.name = NameOfCopy
  /\ file.data # <<>>
  /\ parsedReport.accountId = undefined
  /\ IdentityKey(parsedReport) = file.name

(***************************************************************************)
(* Properties of the ranking of the services (checked under SpecViews)     *)
(***************************************************************************)
\* the stored reports of the selected accounts, in the order the store is
\* walked
PassingReports ==
  SelectSeq(AllReports(reportsByMonth),
            LAMBDA r : IdentityKey(r) \in Range(selectedAccounts))

\* the service names of the passing reports in the order they are met
Encounters ==
  FoldLeft(LAMBDA acc, r : acc \o Names(r.services), <<>>, PassingReports)

FirstEncounter(s) == Min({i \in 1..Len(Encounters) : Encounters[i] = s})

\* the cost of service s added up over the passing reports
AggregatedCost(s) ==
  FoldLeft(LAMBDA sum, r : NumAdd(sum, GetOrZero(r.services, s)), 0,
           PassingReports)

\* C13: the services list names every service once; when accounts are
\* selected it names exactly the services of the reports of these accounts,
\* by descending aggregated cost over these reports, services of equal cost
\* in the order they are first met when the store is walked.
C13_RankedServices ==
  /\ \A i, j \in 1..Len(services) : services[i] = services[j] => i = j
  /\ Len(selectedAccounts) > 0 =>
       /\ Range(services) = Range(Encounters)
       /\ \A i, j \in 1..Len(services) :
            i < j =>
              \/ AggregatedCost(services[i]) > AggregatedCost(services[j])
              \/ /\ AggregatedCost(services[i]) = AggregatedCost(services[j])
                 /\ FirstEncounter(services[i]) < FirstEncounter(services[j])

\* C13 witness: only account 333 is selected; its twelve services are
\* ranked, the two that cost 8 first and Amazon EC2, met first, in front
\* of Amazon ECS, then the four that cost 2 with Amazon S3 in front
C13_Witness ==
  /\ selectedAccounts = <<<<"333">>>>
  /\ Len(AllReports(reportsByMonth)) = 2
  /\ Len(services) = 12
  /\ services[1] = <<"Amazon EC2">>
  /\ services[2] = <<"Amazon ECS">>
  /\ services[3] = S3
  /\ services[12] = <<"Amazon Route 53">>

\* C14: selectTop10 makes the selected services the first 10 entries of the
\* services list, all of them when the list has fewer, in the order of the
\* list, whatever was selected before.
C14_TopTenSelected ==
  [][selectTop10 =>
       selectedServices' =
         [i \in 1..(IF Len(services) < 10 THEN Len(services) ELSE 10) |->
            services[i]]]_vars

\* C14 witness: the list has twelve services and its first 10, not the
\* last two, are selected
C14_Witness ==
  /\ Len(services) = 12
  /\ selectedServices = SubSeq(services, 1, 10)

(***************************************************************************)
(* Properties of the initialisation of the selections                      *)
(***************************************************************************)
\* a step of processFiles or of the parsing layer
UploadStep == uploaded' # uploaded \/ inFlight' # inFlight

\* C15, as claimed: an upload that brings the first keys of a dimension
\* selects all keys of the dimension the store then has, and an upload after
\* that leaves the selection of the dimension as it is.
C15_SelectedOnFirstData ==
  [][UploadStep =>
       /\ IF hasInitializedAccounts THEN selectedAccounts' = selectedAccounts
          ELSE AccountsOf(reportsByMonth') # <<>> =>
                 Range(selectedAccounts') = Range(AccountsOf(reportsByMonth'))
       /\ IF hasInitializedMonths THEN selectedMonths' = selectedMonths
          ELSE reportsByMonth' # <<>> =>
                 Range(selectedMonths') = Range(MonthKeys(reportsByMonth'))
       /\ IF hasInitializedServices THEN selectedServices' = selectedServices
          ELSE AllServiceNames(reportsByMonth') # {} =>
                 Range(selectedServices') = AllServiceNames(reportsByMonth')]_vars

\* the services list of the next state
NextServices == ServicesOf(reportsByMonth', selectedAccounts')

\* C15, amended: the accounts and the months are selected, all of them, by
\* the first upload that stores a report. The services are selected by the
\* first step, an upload or a filter action, after which the services list
\* (the services of the reports the account filter lets through) is not
\* empty, and it is this list that is selected. A selection made this way is
\* made once: no upload changes it afterwards.
C15_SelectedOnceWhenListed ==
  [][/\ UploadStep =>
          /\ IF hasInitializedAccounts
             THEN selectedAccounts' = selectedAccounts
             ELSE IF reportsByMonth' # <<>>
             THEN /\ selectedAccounts' = AccountsOf(reportsByMonth')
                  /\ hasInitializedAccounts'
             ELSE selectedAccounts' = <<>> /\ ~hasInitializedAccounts'
          /\ IF hasInitializedMonths
             THEN selectedMonths' = selectedMonths
             ELSE IF reportsByMonth' # <<>>
             THEN /\ selectedMonths' = SortedMonthsOf(reportsByMonth')
                  /\ hasInitializedMonths'
             ELSE selectedMonths' = <<>> /\ ~hasInitializedMonths'
          /\ hasInitializedServices => selectedServices' = selectedServices
     /\ ~hasInitializedServices =>
          IF NextServices # <<>>
          THEN selectedServices' = NextServices /\ hasInitializedServices'
          ELSE selectedServices' = <<>> /\ ~hasInitializedServices'
     /\ hasInitializedAccounts => hasInitializedAccounts'
     /\ hasInitializedMonths => hasInitializedMonths'
     /\ hasInitializedServices => hasInitializedServices']_vars

\* C15 witness: the unbilled June file of account 222 came first, the May
\* file of account 111 second: account 111 and May are not selected, and no
\* service is selected although the store has services
C15_Witness ==
  /\ uploaded = 2
  /\ inFlight = <<>>
  /\ accounts = <<<<"111">>, <<"222">>>>
  /\ selectedAccounts = <<<<"222">>>>
  /\ selectedMonths = <<June>>
  /\ AllServiceNames(reportsByMonth) # {}
  /\ selectedServices = <<>>
  /\ ~hasInitializedServices

(***************************************************************************)
(* Properties of the messages shown when a call of processFiles completes  *)
(***************************************************************************)
\* the positions of the files of a call that failed
Failed(results) ==
  {j \in 1..Len(results) : results[j].status = "rejected"}

\* the k-th position of a set of positions
NthOf(positions, k) ==
  CHOOSE j \in positions : Cardinality({m \in positions : m < j}) = k - 1

\* the warnings the files at positions j.. of a call returned, in file order
RECURSIVE CollectedFrom(_, _)
CollectedFrom(results, j) ==
  IF j > Len(results) THEN <<>>
  ELSE (IF results[j].status = "fulfilled" THEN results[j].value.warnings
        ELSE <<>>) \o CollectedFrom(results, j + 1)

\* the error message has one line per failed file of the call, in file
\* order, each naming its file, and is empty iff no file failed
OneLinePerFailure(files, results) ==
  /\ Len(errorMessage') = Cardinality(Failed(results))
  /\ \A k \in 1..Len(errorMessage') :
       /\ errorMessage'[k].fileName = files[NthOf(Failed(results), k)].name
       /\ errorMessage'[k] = results[NthOf(Failed(results), k)].reason
  /\ (errorMessage' = <<>>) <=> (Failed(results) = {})

\* every warning returned for a file of the call is shown
AllWarningsShown(results) == warnings' = CollectedFrom(results, 1)

\* the first WarningLimit warnings returned for the files of the call are
\* shown
FirstWarningsShown(results) ==
  /\ Len(warnings') =
       (IF Len(CollectedFrom(results, 1)) < WarningLimit
        THEN Len(CollectedFrom(results, 1)) ELSE WarningLimit)
  /\ \A k \in 1..Len(warnings') : warnings'[k] = CollectedFrom(results, 1)[k]

\* C16, as claimed: when a call of processFiles completes, the error message
\* has one line per failed file (none iff no file failed) and every warning
\* returned for a parsed file of the call is shown.
C16_AllFailuresAndWarningsShown ==
  [][/\ (uploaded' # uploaded /\ Len(inFlight') = Len(inFlight)) =>
          \A files \in Batches :
            (AllSettled(ResultsAtCall(files)) /\ processFiles(files))
              => /\ OneLinePerFailure(files, ResultsAtCall(files))
                 /\ AllWarningsShown(ResultsAtCall(files))
     /\ Len(inFlight') < Len(inFlight) =>
          \A b \in 1..Len(inFlight) : \A i \in 1..Len(inFlight[b].files) :
            \A readFails \in BOOLEAN :
              (AllSettled(ResultsAfter(b, i, readFails))
                 /\ settle(b, i, readFails))
                => /\ OneLinePerFailure(inFlight[b].files,
                                        ResultsAfter(b, i, readFails))
                   /\ AllWarningsShown(ResultsAfter(b, i, readFails))]_vars

\* C16, amended: when a call of processFiles completes, the error message
\* has one line per failed file (none iff no file failed), and of the
\* warnings returned for the parsed files of the call, taken in file order,
\* the first five are shown and the others are dropped.
C16_FailuresShownWarningsCapped ==
  [][/\ (uploaded' # uploaded /\ Len(inFlight') = Len(inFlight)) =>
          \A files \in Batches :
            (AllSettled(ResultsAtCall(files)) /\ processFiles(files))
              => /\ OneLinePerFailure(files, ResultsAtCall(files))
                 /\ FirstWarningsShown(ResultsAtCall(files))
     /\ Len(inFlight') < Len(inFlight) =>
          \A b \in 1..Len(inFlight) : \A i \in 1..Len(inFlight[b].files) :
            \A readFails \in BOOLEAN :
              (AllSettled(ResultsAfter(b, i, readFails))
                 /\ settle(b, i, readFails))
                => /\ OneLinePerFailure(inFlight[b].files,
                                        ResultsAfter(b, i, readFails))
                   /\ FirstWarningsShown(ResultsAfter(b, i, readFails))]_vars

\* C16 witness: a call with the June copy (one warning) and the revised May
\* file (five warnings) completed; the warning of the first and four of the
\* second are shown, the fifth is not
C16_Witness ==
  /\ inFlight = <<>>
  /\ errorMessage = <<>>
  /\ Len(warnings) = WarningLimit
  /\ warnings[1].fileName = FileJuneCopy.name
  /\ warnings[WarningLimit]
       = Warning(File111MayRevised.name, File111MayRevised.errors[4])
  /\ ReportOf(File111MayRevised) \in StoredReports(reportsByMonth)

\* C17: a file returns at most five warnings, whatever the number of its
\* parse errors, and the list of warnings shown never has more than five
\* entries, whatever the number of files of a call.
C17_AtMostFiveWarnings ==
  /\ Len(warnings) <= 5
  /\ \A b \in 1..Len(inFlight) : \A i \in 1..Len(inFlight[b].results) :
       inFlight[b].results[i].status = "fulfilled"
         => Len(inFlight[b].results[i].value.warnings) <= 5
  /\ \A f \in Files :
       parseMonthlyReport(f, FALSE).status = "fulfilled"
         => Len(parseMonthlyReport(f, FALSE).value.warnings) <= 5

\* C17 witness: five warnings are shown while a file with more than five
\* parse errors has been parsed in a call that is still waiting for another
\* file; it returned five warnings
C17_Witness ==
  /\ Len(warnings) = 5
  /\ \E b \in 1..Len(inFlight) : \E i \in 1..Len(inFlight[b].results) :
       /\ inFlight[b].results[i].status = "fulfilled"
       /\ Len(inFlight[b].files[i].errors) > 5
       /\ Len(inFlight[b].results[i].value.warnings) = 5

(***************************************************************************)
(* Properties of the account view and of the grand total                   *)
(***************************************************************************)
\* the sum of the costs of the first k services of a report that are in
\* the selected services
RECURSIVE CostOfSelected(_, _)
CostOfSelected(r, k) ==
  IF k = 0 THEN 0
  ELSE NumAdd(CostOfSelected(r, k - 1),
              IF r.services[k].name \in Range(selectedServices)
              THEN r.services[k].cost ELSE 0)

\* C18: accountChartData has one row per stored month; the row of a month
\* has one entry per identity key with a report in the month, and the entry
\* is the sum of the costs of the services of that report that are
\* selected, 0 when no service is selected. Neither the selected accounts
\* nor the selected months restrict the rows or the entries.
C18_AccountTotals ==
  /\ Len(accountChartData) = Len(reportsByMonth)
  /\ {accountChartData[i].month : i \in 1..Len(accountChartData)}
       = StoredMonths
  /\ \A i \in 1..Len(accountChartData) :
       /\ Range(Names(accountChartData[i].services))
            = KeysOfMonth(reportsByMonth, accountChartData[i].month)
       /\ Len(accountChartData[i].services)
            = Cardinality(KeysOfMonth(reportsByMonth, accountChartData[i].month))
       /\ \A r \in Range(ReportsOf(reportsByMonth, accountChartData[i].month)) :
            /\ GetOrZero(accountChartData[i].services, IdentityKey(r))
                 = CostOfSelected(r, Len(r.services))
            /\ selectedServices = <<>>
                 => GetOrZero(accountChartData[i].services, IdentityKey(r)) = 0

\* C18 witness: an account that is not selected, in a month that is not
\* selected, has an entry above 0 that leaves out a service of its report
C18_Witness ==
  \E i \in 1..Len(accountChartData) :
    \E r \in Range(ReportsOf(reportsByMonth, accountChartData[i].month)) :
      /\ accountChartData[i].month \notin Range(selectedMonths)
      /\ IdentityKey(r) \notin Range(selectedAccounts)
      /\ GetOrZero(accountChartData[i].services, IdentityKey(r)) > 0
      /\ \E k \in 1..Len(r.services) :
           /\ r.services[k].name \notin Range(selectedServices)
           /\ r.services[k].cost > 0

\* the terms of the sum: one per selected month, report of the month whose
\* identity key is a selected account, and selected service, in this order
TermsOfReport(r) ==
  [k \in 1..Len(selectedServices) |-> GetOrZero(r.services, selectedServices[k])]

TermsOfMonth(month) ==
  FoldLeft(LAMBDA acc, r :
             IF IdentityKey(r) \in Range(selectedAccounts)
             THEN acc \o TermsOfReport(r) ELSE acc,
           <<>>, ReportsOf(reportsByMonth, month))

SelectedTerms ==
  FoldLeft(LAMBDA acc, month : acc \o TermsOfMonth(month), <<>>, selectedMonths)

SumOfTerms(terms) == FoldLeft(LAMBDA acc, t : NumAdd(acc, t), 0, terms)

AllSelectionsNonEmpty ==
  /\ Len(selectedMonths) > 0
  /\ Len(selectedAccounts) > 0
  /\ Len(selectedServices) > 0

\* C19, as claimed: with the three selections non-empty the grand total is,
\* in service mode and in account mode alike, the sum of report.services[s]
\* (0 where the report lacks s) over the selected months, the reports of
\* selected accounts and the selected services.
C19_TotalIsSumOverSelections ==
  AllSelectionsNonEmpty => totalCost = SumOfTerms(SelectedTerms)

(***************************************************************************)
(* Properties of the select-all and clear buttons                          *)
(***************************************************************************)
AllIdentityKeys == {IdentityKey(r) : r \in Range(AllReports(reportsByMonth))}

\* the service names of the reports the account filter lets through: all
\* reports while no account is selected, else those of selected accounts
ListedServiceNames ==
  UNION {Keys(r.services) :
           r \in {q \in Range(AllReports(reportsByMonth)) :
                    \/ selectedAccounts = <<>>
                    \/ IdentityKey(q) \in Range(selectedAccounts)}}

NoDuplicates(seq) == \A i, j \in 1..Len(seq) : seq[i] = seq[j] => i = j

\* a step that is no upload and does not touch the store, as the steps of
\* the filter buttons are
FilterStep ==
  /\ ~UploadStep
  /\ reportsByMonth' = reportsByMonth
  /\ aggregationMode' = aggregationMode

\* select all and clear of the accounts and the months, and clear of the
\* services
SelectAllButServices ==
  /\ selectAllAccounts =>
       /\ Range(selectedAccounts') = AllIdentityKeys
       /\ NoDuplicates(selectedAccounts')
  /\ selectAllMonths =>
       /\ Range(selectedMonths') = StoredMonths
       /\ NoDuplicates(selectedMonths')
  /\ clearSelectedAccounts => selectedAccounts' = <<>>
  /\ clearSelectedMonths => selectedMonths' = <<>>
  /\ clearSelectedServices => selectedServices' = <<>>

\* C20, as claimed: select all sets the selection of its dimension to all
\* keys of the dimension in the store (all identity keys, all months, all
\* service names of the stored reports) whatever the other selections are,
\* and clear sets it to the empty selection.
C20_SelectAllTakesStoreKeys ==
  [][FilterStep =>
       /\ SelectAllButServices
       /\ selectAllServices =>
            /\ Range(selectedServices') = AllServiceNames(reportsByMonth)
            /\ NoDuplicates(selectedServices')]_vars

\* C20, amended: select all of the accounts takes all identity keys of the
\* store and select all of the months all stored months, whatever the other
\* selections are; select all of the services takes the service names of
\* the reports the account filter lets through, which are all service names
\* of the store only when no account is selected or the selected accounts
\* have them all. Clear empties the selection of its dimension.
C20_SelectAllTakesListedServices ==
  [][FilterStep =>
       /\ SelectAllButServices
       /\ selectAllServices =>
            /\ Range(selectedServices') = ListedServiceNames
            /\ NoDuplicates(selectedServices')]_vars

\* C20 witness: with account 222 alone selected and no month selected,
\* all listed services are selected and AWS Config, which only account 111
\* has, is not among them
C20_Witness ==
  /\ selectedAccounts = <<<<"222">>>>
  /\ selectedMonths = <<>>
  /\ services # <<>>
  /\ selectedServices = services
  /\ Config \in AllServiceNames(reportsByMonth) \ Range(selectedServices)

(***************************************************************************)
(* Properties of the text filters (checked under SpecFilters)              *)
(***************************************************************************)
\* the text without the blanks in front of and behind it
Trimmed(text) ==
  SelectSeq([i \in 1..Len(text) |->
               IF \/ \A j \in 1..i : text[j] = " "
                  \/ \A j \in i..Len(text) : text[j] = " "
               THEN "" ELSE text[i]],
            LAMBDA c : c # "")

SameLetters(a, b) ==
  /\ Len(a) = Len(b)
  /\ \A i \in 1..Len(a) : LowerCase(a[i]) = LowerCase(b[i])

\* the key, spelled out, contains the trimmed text, the case of letters
\* aside; every key does when the trimmed text is empty
ContainsText(chars, text) ==
  \/ Trimmed(text) = <<>>
  \/ \E i \in 1..Len(chars) :
       /\ i + Len(Trimmed(text)) - 1 <= Len(chars)
       /\ SameLetters(SubSeq(chars, i, i + Len(Trimmed(text)) - 1),
                      Trimmed(text))

\* the list shown in each selector is the list of the keys of its
\* dimension that contain the trimmed text without regard to case
CandidatesShown ==
  /\ filteredAccounts =
       SelectSeq(accounts,
                 LAMBDA k : ContainsText(Characters(k), accountFilter))
  /\ filteredServices =
       SelectSeq(services,
                 LAMBDA k : ContainsText(Characters(k), serviceFilter))
  /\ filteredMonths =
       SelectSeq(sortedMonths, LAMBDA m : ContainsText(Spell(m), monthFilter))

\* C21: the list shown in each selector is the list of the keys of its
\* dimension that contain the trimmed filter text without regard to case,
\* all of them for an empty text; and a change of a filter text leaves the
\* store, the three selections, the chart data of both modes and the grand
\* total as they are.
C21_FilterTextOnlyNarrowsCandidates ==
  /\ []CandidatesShown
  /\ [][filterTexts' # filterTexts =>
          /\ UNCHANGED <<reportsByMonth, selectedAccounts, selectedMonths,
                         selectedServices>>
          /\ ChartDataOf(reportsByMonth', selectedAccounts') = chartData
          /\ AccountChartDataOf(reportsByMonth', selectedServices')
               = accountChartData
          /\ FilteredChartDataOf(
               IF aggregationMode' = "service"
               THEN ChartDataOf(reportsByMonth', selectedAccounts')
               ELSE AccountChartDataOf(reportsByMonth', selectedServices'),
               selectedMonths') = filteredChartData
          /\ TotalCostOf(reportsByMonth', selectedMonths', selectedAccounts',
                         selectedServices', aggregationMode') = totalCost]_vars

\* C21 witness: each of the three filters hides a selected key, and the
\* grand total, above 0, would be smaller without the hidden account
C21_Witness ==
  /\ \E k \in Range(selectedAccounts) \ Range(filteredAccounts) :
       TotalCostOf(reportsByMonth, selectedMonths,
                   Without(selectedAccounts, k), selectedServices,
                   aggregationMode) < totalCost
  /\ Range(selectedServices) \ Range(filteredServices) # {}
  /\ Range(selectedMonths) \ Range(filteredMonths) # {}
  /\ filteredAccounts # <<>>
  /\ filteredServices # <<>>
  /\ filteredMonths # <<>>

(***************************************************************************)
(* Properties of the calls of processFiles in flight                       *)
(***************************************************************************)
\* every report the files of the call gave is in the next store, unless a
\* later file of the call with the same month and key took its place
AllStoredTogether(results) ==
  \A j \in Succeeded(results) :
    \/ results[j].value.report \in StoredReports(reportsByMonth')
    \/ \E k \in Succeeded(results) :
         /\ k > j
         /\ results[k].value.report.month = results[j].value.report.month
         /\ IdentityKey(results[k].value.report)
              = IdentityKey(results[j].value.report)

\* C22: a call of processFiles changes the store in one step, the step in
\* which its last file settles: the step that starts a call and a step in
\* which a file settles while another of the call is pending leave the
\* store as it is, and the step that changes it puts in the reports of all
\* parsed files of the call.
C22_StoreChangedOnceAfterAllSettled ==
  [][/\ (UploadStep /\ Len(inFlight') >= Len(inFlight))
          => reportsByMonth' = reportsByMonth
     /\ (UploadStep /\ reportsByMonth' # reportsByMonth) =>
          \E b \in 1..Len(inFlight) : \E i \in 1..Len(inFlight[b].files) :
            \E readFails \in BOOLEAN :
              /\ AllSettled(ResultsAfter(b, i, readFails))
              /\ settle(b, i, readFails)
              /\ AllStoredTogether(ResultsAfter(b, i, readFails))]_vars

\* C22 witness: a call is in flight one file of which was parsed while
\* another is pending, and the report of the parsed file is not in the
\* store
C22_Witness ==
  \E b \in 1..Len(inFlight) : \E i, j \in 1..Len(inFlight[b].results) :
    /\ inFlight[b].results[i].status = "fulfilled"
    /\ inFlight[b].results[j].status = "pending"
    /\ inFlight[b].results[i].value.report \notin StoredReports(reportsByMonth)

\* parsed files j and k of a call have the same month and identity key
SameSlot(results, j, k) ==
  /\ results[k].value.report.month = results[j].value.report.month
  /\ IdentityKey(results[k].value.report)
       = IdentityKey(results[j].value.report)

\* the last parsed file of the call with the month and key of file j
LastOfSlot(results, j) ==
  CHOOSE k \in Succeeded(results) :
    /\ SameSlot(results, j, k)
    /\ \A m \in Succeeded(results) : SameSlot(results, j, m) => m <= k

\* the next store has, under the month and key of every parsed file of the
\* call, the report of the last file of the file list with that month and
\* key; and the reports of the other months and keys are those it had
FileOrderDecides(results) ==
  /\ \A j \in Succeeded(results) :
       /\ \E r \in StoredReports(reportsByMonth') :
            /\ r.month = results[j].value.report.month
            /\ IdentityKey(r) = IdentityKey(results[j].value.report)
       /\ \A r \in StoredReports(reportsByMonth') :
            (/\ r.month = results[j].value.report.month
             /\ IdentityKey(r) = IdentityKey(results[j].value.report))
              => r = results[LastOfSlot(results, j)].value.report
  /\ \A r \in StoredReports(reportsByMonth') :
       \/ r \in StoredReports(reportsByMonth)
       \/ \E j \in Succeeded(results) : r = results[j].value.report
  /\ \A r \in StoredReports(reportsByMonth) :
       \/ r \in StoredReports(reportsByMonth')
       \/ \E j \in Succeeded(results) :
            /\ r.month = results[j].value.report.month
            /\ IdentityKey(r) = IdentityKey(results[j].value.report)

\* C23: whichever file of a call settles last, the completion of the call
\* gives the store, the warnings and the error message that the file list
\* decides: the reports are applied, the warnings collected and the
\* failures listed in the order of the files, so of two files with the
\* same month and identity key the later of the list is stored.
C23_FileOrderNotCompletionOrder ==
  [][Len(inFlight') < Len(inFlight) =>
       \A b \in 1..Len(inFlight) : \A i \in 1..Len(inFlight[b].files) :
         \A readFails \in BOOLEAN :
           (AllSettled(ResultsAfter(b, i, readFails))
              /\ settle(b, i, readFails))
             => /\ FileOrderDecides(ResultsAfter(b, i, readFails))
                /\ FirstWarningsShown(ResultsAfter(b, i, readFails))
                /\ OneLinePerFailure(inFlight[b].files,
                                     ResultsAfter(b, i, readFails))]_vars

\* C23 witness: a call with the revised May file of account 111 first and
\* the May file of account 111 second completed as the first call of the
\* page: the warnings of the first file are shown and the report of the
\* second is stored
C23_Witness ==
  /\ uploaded = 2
  /\ inFlight = <<>>
  /\ Len(warnings) = WarningLimit
  /\ warnings[1].fileName = File111MayRevised.name
  /\ reportsByMonth = <<[month |-> May, reports |-> <<ReportOf(File111May)>>]>>
  /\ ReportOf(File111May) # ReportOf(File111MayRevised)

\* the (month, identity key) pairs under which the store has a report
Slots(store) == {<<r.month, IdentityKey(r)>> : r \in StoredReports(store)}

\* the calls in flight but call b
OtherCalls(b) ==
  [j \in 1..(Len(inFlight) - 1) |->
     IF j < b THEN inFlight[j] ELSE inFlight[j + 1]]

\* C24: when a call of processFiles completes, whether or not another call
\* is in flight or has completed since this one started, no report is lost:
\* every (month, identity key) the store had it still has, with the report
\* it had unless the completing call parsed a file for it; every (month,
\* identity key) the call parsed a file for has the report of that call;
\* and the other calls in flight stay in flight with what they have parsed.
C24_NoUpdateLost ==
  [][Len(inFlight') < Len(inFlight) =>
       \A b \in 1..Len(inFlight) : \A i \in 1..Len(inFlight[b].files) :
         \A readFails \in BOOLEAN :
           (AllSettled(ResultsAfter(b, i, readFails))
              /\ settle(b, i, readFails))
             => /\ Slots(reportsByMonth) \subseteq Slots(reportsByMonth')
                /\ \A r \in StoredReports(reportsByMonth) :
                     \/ r \in StoredReports(reportsByMonth')
                     \/ \E j \in Succeeded(ResultsAfter(b, i, readFails)) :
                          <<r.month, IdentityKey(r)>> =
                            <<ResultsAfter(b, i, readFails)[j].value.report.month,
                              IdentityKey(ResultsAfter(b, i, readFails)[j]
                                            .value.report)>>
                /\ \A j \in Succeeded(ResultsAfter(b, i, readFails)) :
                     \E k \in Succeeded(ResultsAfter(b, i, readFails)) :
                       /\ SameSlot(ResultsAfter(b, i, readFails), j, k)
                       /\ ResultsAfter(b, i, readFails)[k].value.report
                            \in StoredReports(reportsByMonth')
                /\ inFlight' = OtherCalls(b)]_vars

\* C24 witness: two calls were in flight at the same time and one of them
\* has completed and stored a report: the other is still in flight and the
\* indicator, switched off by the first, is off
C24_Witness ==
  /\ Len(inFlight) = 1
  /\ ~isParsing
  /\ reportsByMonth # <<>>
  /\ \E i \in 1..Len(inFlight[1].results) :
       inFlight[1].results[i].status = "pending"

\* C25: a step that is no clear keeps every (month, identity key) of the
\* store; a step that removes one is a clear and empties the store. A clear
\* leaves the calls in flight as they are, and a call that completes over
\* an empty store stores the reports of its parsed files.
C25_OnlyClearRemoves ==
  [][/\ ~(Slots(reportsByMonth) \subseteq Slots(reportsByMonth'))
          => clearReports /\ reportsByMonth' = <<>>
     /\ (reportsByMonth' = <<>> /\ reportsByMonth # <<>>)
          => clearReports /\ inFlight' = inFlight
     /\ (Len(inFlight') < Len(inFlight) /\ reportsByMonth = <<>>) =>
          \A b \in 1..Len(inFlight) : \A i \in 1..Len(inFlight[b].files) :
            \A readFails \in BOOLEAN :
              (AllSettled(ResultsAfter(b, i, readFails))
                 /\ settle(b, i, readFails))
                => Slots(reportsByMonth') =
                     {<<ResultsAfter(b, i, readFails)[j].value.report.month,
                        IdentityKey(ResultsAfter(b, i, readFails)[j]
                                      .value.report)>> :
                        j \in Succeeded(ResultsAfter(b, i, readFails))}]_vars

\* C25 witness: a call has completed over the cleared store: the store has
\* a report of account 222 alone while account 111, stored before the
\* clear, is the selected account
C25_Witness ==
  /\ inFlight = <<>>
  /\ Slots(reportsByMonth) = {<<May, <<"222">>>>}
  /\ selectedAccounts = <<<<"111">>>>

(***************************************************************************)
(* Properties of the whole page (checked under SpecPage)                   *)
(***************************************************************************)
\* a step of a checkbox, of a select-all, clear-selection or Top 10 button,
\* of a filter input or of the mode switch
FilterAction ==
  \/ \E acc \in Range(filteredAccounts) : toggleAccount(acc)
  \/ \E month \in Range(filteredMonths) : toggleMonth(month)
  \/ \E service \in Range(filteredServices) : toggleService(service)
  \/ selectAllAccounts
  \/ selectAllMonths
  \/ selectAllServices
  \/ clearSelectedAccounts
  \/ clearSelectedMonths
  \/ clearSelectedServices
  \/ selectTop10
  \/ filterTexts' # filterTexts
  \/ aggregationMode' # aggregationMode

\* C26: no step of a checkbox, of a select-all, clear-selection or Top 10
\* button, of a filter input or of the mode switch changes the store; a
\* step that changes the store is the completion of a call of processFiles
\* or a clear.
C26_StoreChangedByCommitOrClear ==
  [][/\ (~UploadStep /\ FilterAction) => reportsByMonth' = reportsByMonth
     /\ reportsByMonth' # reportsByMonth =>
          \/ Len(inFlight') < Len(inFlight)
          \/ clearReports]_vars

\* C26 witness: with both May files stored, the account filter has a text,
\* the mode is the account mode and no month and no service is selected;
\* the store is what the upload made it
C26_Witness ==
  /\ reportsByMonth = StoreOf(<<File111May, File222May>>)
  /\ accountFilter # <<>>
  /\ aggregationMode = "account"
  /\ selectedMonths = <<>>
  /\ selectedServices = <<>>
  /\ selectedAccounts = <<<<"222">>>>

(***************************************************************************)
(* Properties of the grand total across the modes and against the chart    *)
(***************************************************************************)
\* C27, as claimed: for the store and the selections of every reachable
\* state the grand total of the service mode equals the grand total of the
\* account mode, so that the mode switch does not change the total shown.
C27_TotalSameInBothModes ==
  TotalCostOf(reportsByMonth, selectedMonths, selectedAccounts,
              selectedServices, "service")
    = TotalCostOf(reportsByMonth, selectedMonths, selectedAccounts,
                  selectedServices, "account")

\* the chart is drawn when there are rows and series to draw
ChartDisplayed == Len(filteredChartData) > 0 /\ Len(displayedSeries) > 0

\* what the bars of a row add up to: the value of each displayed series
RowSum(row) ==
  FoldLeft(LAMBDA acc, series : NumAdd(acc, GetOrZero(row.services, series)),
           0, displayedSeries)

\* the sum of the values the chart displays, 0 when no chart is displayed
ChartSum ==
  IF ChartDisplayed
  THEN FoldLeft(LAMBDA acc, row : NumAdd(acc, RowSum(row)),
                0, filteredChartData)
  ELSE 0

\* C28, as claimed: in both modes the grand total equals the sum of the
\* values the chart displays (0 when no chart is displayed), so the chart
\* shows no cost that the total omits.
C28_TotalIsSumOfChart == totalCost = ChartSum

(***************************************************************************)
(* Properties of the selections as lists                                   *)
(***************************************************************************)
\* the set a toggle of x makes of the set sel
Flipped(sel, x) == IF x \in sel THEN sel \ {x} ELSE sel \cup {x}

SelectionsWithoutDuplicates ==
  /\ NoDuplicates(selectedAccounts)
  /\ NoDuplicates(selectedMonths)
  /\ NoDuplicates(selectedServices)

\* C29: the three selections never hold a key twice; a toggle of a key adds
\* it to its selection when it is not in it and removes it when it is, and
\* leaves the other keys of the selection; so a second toggle of the key
\* gives back the set of keys there was before the first.
C29_SelectionsAreSets ==
  /\ []SelectionsWithoutDuplicates
  /\ [][~UploadStep =>
          /\ \A acc \in Range(accounts) :
               toggleAccount(acc) =>
                 /\ Range(selectedAccounts')
                      = Flipped(Range(selectedAccounts), acc)
                 /\ Flipped(Range(selectedAccounts'), acc)
                      = Range(selectedAccounts)
          /\ \A month \in Range(sortedMonths) :
               toggleMonth(month) =>
                 /\ Range(selectedMonths')
                      = Flipped(Range(selectedMonths), month)
                 /\ Flipped(Range(selectedMonths'), month)
                      = Range(selectedMonths)
          /\ \A service \in Range(services) :
               toggleService(service) =>
                 /\ Range(selectedServices')
                      = Flipped(Range(selectedServices), service)
                 /\ Flipped(Range(selectedServices'), service)
                      = Range(selectedServices)]_vars

\* C29 witness: account 111 was unticked and ticked again: both accounts
\* are selected, each once, in the order of the ticks
C29_Witness ==
  /\ accounts = <<<<"111">>, <<"222">>>>
  /\ selectedAccounts = <<<<"222">>, <<"111">>>>
  /\ totalCost > 0

(***************************************************************************)
(* Properties of the parsing indicator                                     *)
(***************************************************************************)
\* C30, as claimed: isParsing is true in every state in which a call of
\* processFiles with files has started and not completed, also when
\* several calls overlap, and false in every state in which no call is in
\* flight.
C30_ParsingWhileInFlight == isParsing <=> (inFlight # <<>>)

====
